---- MODULE Spec2Model ----
(***************************************************************************)
(* A model of odtk.py: the reference-counting Transport, the AttrRef and   *)
(* AttrProxy objects that drive it, and the Client root.                   *)
(*                                                                         *)
(* A Python str that the code builds by concatenation (an attribute path)  *)
(* is kept as the sequence of the pieces it was concatenated from; Str     *)
(* renders it. Everything the code sends is rendered to text.              *)
(*                                                                         *)
(* The HTTP library and the server are the environment: every request      *)
(* draws an outcome (how the submission went, and what came back).         *)
(***************************************************************************)
EXTENDS Integers, Sequences, FiniteSets, Bags, TLC

\* ------------------------------------------------------------- bounds
\* Live AttrProxy objects, the root included.
MaxObjs == 3
\* Navigation steps (attribute accesses and indexings) in a path.
MaxDepth == 1
\* Live AttrProxy objects, the root included, where only navigation is looked at.
NavObjs == 3
\* The largest count the server answers an iteration with.
MaxCount == 2
\* Live AttrProxy objects, the root included, where assignments and calls are
\* looked at.
ArgObjs == 3

\* ---------------------------------------------------------- constants
INVALID_ATTRIBUTE_PATH == "InvalidAttributePath"
BAD_REQUEST == "BadRequest"
EXECUTION_ERROR == "ExecutionError"
INTERNAL_ERROR == "InternalError"
SERIALIZATION_ERROR == "SerializationError"
INVALID_OPERATION == "InvalidOperation"

\* Transport.__init__ with the default host and port.
baseUrl == "http://127.0.0.1:9393/v1.0/"

\* Client.__init__: the path of the root proxy.
ROOT == <<"ODTK">>

\* ------------------------------------------------------------- values
\* The text of a path: its pieces concatenated.
RECURSIVE Str(_)
Str(path) == IF path = <<>> THEN "" ELSE Head(path) \o Str(Tail(path))

\* A Python value: its type, its text (a path for a reference or a proxy),
\* and for AttrRef / AttrProxy the temporary flag and whether it holds a transport.
PyVal(t, v, temporary, transport) ==
    [t |-> t, v |-> v, temporary |-> temporary, transport |-> transport]

NoVal == PyVal("NoneType", <<>>, FALSE, FALSE)
Scalar(t, text) == PyVal(t, <<text>>, FALSE, FALSE)

\* An exception: its class, and for a ClientException its error_code and message.
Exc(cls, code, message) == [cls |-> cls, code |-> code, message |-> message]

\* No exception.
NoExc == Exc("none", "", "")

ClientException(message, error_code) == Exc("ClientException", error_code, message)

\* One thing the transport did to its connection.
Event(ev, method, url, body) ==
    [ev |-> ev, method |-> method, url |-> url, body |-> body]

\* The state a Transport method works on: the fields of the Transport, the
\* events of the running operation, the exception being raised and the value
\* being returned.
TState(refs, disp, conn, tr) ==
    [refs |-> refs, disposed |-> disp, connection |-> conn, trace |-> tr,
     exc |-> NoExc, value |-> NoVal]

\* ------------------------------------------- temporary_references (dict)
\* A Python dict keeps its keys in insertion order: a sequence of entries.
Entry(path, count) == [path |-> path, count |-> count]

dict_has(d, path) == \E i \in DOMAIN d : d[i].path = path

dict_get(d, path) == d[CHOOSE i \in DOMAIN d : d[i].path = path].count

dict_set(d, path, count) ==
    IF dict_has(d, path)
    THEN [i \in DOMAIN d |-> IF d[i].path = path THEN Entry(path, count) ELSE d[i]]
    ELSE Append(d, Entry(path, count))

dict_del(d, path) == SelectSeq(d, LAMBDA e : e.path # path)

dict_keys(d) == [i \in DOMAIN d |-> d[i].path]

\* ------------------------------------------------------- the environment
\* A response body as json.loads sees it: j is what the text parses to
\* ("empty" for no text at all, "invalid" for text that is not JSON), text the
\* raw text, val the parsed scalar, and for an object whether it has a "type"
\* member, that member, and its "path", "code" and "message" members.
Json(j, text, val, hastype, type, path, code, message) ==
    [j |-> j, text |-> text, val |-> val, hastype |-> hastype, type |-> type,
     path |-> path, code |-> code, message |-> message]

BodyEmpty == Json("empty", "", "", FALSE, "", <<>>, "", "")
BodyInt == Json("int", "7", "7", FALSE, "", <<>>, "", "")
BodyStr == Json("str", "\"Alpha\"", "Alpha", FALSE, "", <<>>, "", "")
BodyNull == Json("null", "null", "", FALSE, "", <<>>, "", "")
BodyRef(path) ==
    Json("object", "{\"type\": \"ref\", \"path\": \"" \o Str(path) \o "\"}", "",
         TRUE, "ref", path, "", "")
BodyError(code, message) ==
    Json("object",
         "{\"type\": \"error\", \"code\": \"" \o code \o "\", \"message\": \""
            \o message \o "\"}",
         "", TRUE, "error", <<>>, code, message)
BodyOther == Json("object", "{\"type\": \"list\"}", "", TRUE, "list", <<>>, "", "")
BodyArray == Json("array", "[1, 2]", "", FALSE, "", <<>>, "", "")
BodyNoType == Json("object", "{\"path\": \"WS._1\"}", "", FALSE, "", <<"WS._1">>, "", "")
BodyInvalid == Json("invalid", "<html>", "", FALSE, "", <<>>, "", "")

\* The paths of the temporary references the server hands out.
RefPaths == {<<"WS._1">>, <<"WS._2">>}

\* What the server answers to a read, a write or a call: a scalar, a
\* reference, or an error.
Bodies ==
    {BodyInt, BodyError(INVALID_ATTRIBUTE_PATH, "Undefined symbol")}
    \cup {BodyRef(p) : p \in RefPaths}

\* What the server answers to a release request: the wire contract gives a
\* release no result, so it is void or an error, never a new reference.
ReleaseBodies == {BodyEmpty, BodyError(INTERNAL_ERROR, "release failed")}

\* How one request goes. net: "ok"; "abort_ok", the submission raises
\* ConnectionAbortedError and the resubmission goes through; "abort_fail", the
\* resubmission raises too; "submit_error", the submission raises another
\* exception; "read_error", reading the response raises.
Outcome(net, status, reason, body) ==
    [net |-> net, status |-> status, reason |-> reason, body |-> body]

Outcomes ==
    {Outcome("ok", 200, "OK", b) : b \in Bodies}
    \cup {Outcome("abort_ok", 200, "OK", BodyRef(p)) : p \in RefPaths}
    \cup {Outcome("submit_error", 0, "", BodyEmpty)}

ReleaseOutcomes ==
    {Outcome(n, 200, "OK", b) : n \in {"ok", "abort_ok"}, b \in ReleaseBodies}
    \cup {Outcome("submit_error", 0, "", BodyEmpty)}

\* Every shape of answer, and every way a request can go: the bodies _decode
\* tells apart, a status that is not 200, a submission that raises
\* ConnectionAbortedError once or twice, a submission that raises something
\* else, and a response that cannot be read.
WireBodies ==
    Bodies
    \cup {BodyStr, BodyNull, BodyArray, BodyNoType, BodyOther, BodyInvalid,
          BodyError(EXECUTION_ERROR, "A name index argument was expected")}

WireOutcomes ==
    {Outcome("ok", 200, "OK", b) : b \in WireBodies}
    \cup {Outcome("abort_ok", 200, "OK", b) : b \in {BodyInt, BodyRef(<<"WS._1">>)}}
    \cup {Outcome(n, 500, "Internal Server Error", BodyEmpty) : n \in {"ok", "abort_ok"}}
    \cup {Outcome("ok", 404, "Not Found", BodyStr)}
    \cup {Outcome(n, 0, "", BodyEmpty) : n \in {"submit_error", "abort_fail", "read_error"}}

\* ------------------------------------------------------------ Transport
RECURSIVE update_ref_count(_, _, _, _)

raise(t, e) == [t EXCEPT !.exc = e, !.value = NoVal]

return(t, v) == [t EXCEPT !.value = v]

log(t, e) == [t EXCEPT !.trace = Append(@, e)]

\* An increment sends nothing: the outcome it passes on is never drawn.
NoOutcome == Outcome("ok", 200, "OK", BodyEmpty)

increment_ref_count(t, ref) == update_ref_count(t, ref, TRUE, NoOutcome)

decrement_ref_count(t, ref, o) == update_ref_count(t, ref, FALSE, o)

\* AttrRef.__init__: the value is the new AttrRef.
AttrRef_init(t, path, temporary, transport) ==
    LET self == PyVal("AttrRef", path, temporary, transport)
    IN  IF transport /\ temporary
        THEN return(increment_ref_count(t, path), self)
        ELSE return(t, self)

\* AttrRef.__del__
AttrRef_del(t, self, o) ==
    IF self.transport /\ self.temporary
    THEN decrement_ref_count(t, self.v, o)
    ELSE t

\* ClientException.create_from_http_status: status_code is the int
\* http.client gives, and "HTTP" + status_code raises TypeError.
create_from_http_status(status_code, message) ==
    Exc("TypeError", "", "can only concatenate str (not \"int\") to str")

IsScalar(j) == j \in {"bool", "float", "int", "str"}

\* _decode as it would be if it dropped the code the server sent.
decode_lostcode(t, message) ==
    IF message.j = "empty" THEN return(t, Scalar("str", ""))
    ELSE IF message.j = "invalid" THEN raise(t, Exc("JSONDecodeError", "", ""))
    ELSE IF IsScalar(message.j) THEN return(t, Scalar(message.j, message.val))
    ELSE IF message.j \in {"null", "array"} THEN raise(t, Exc("TypeError", "", ""))
    ELSE IF ~message.hastype THEN raise(t, Exc("KeyError", "", "type"))
    ELSE IF message.type = "ref" THEN AttrRef_init(t, message.path, TRUE, TRUE)
    ELSE IF message.type = "error"
         THEN raise(t, ClientException(message.message, BAD_REQUEST))
    ELSE raise(t, ClientException("Unable to deserialize response '" \o message.text
                                      \o "'.", SERIALIZATION_ERROR))

\* _decode as it would be if it made the AttrRef of an object that has a path
\* before it looked at its type.
decode_eager(t, message) ==
    IF message.j = "empty" THEN return(t, Scalar("str", ""))
    ELSE IF message.j = "invalid" THEN raise(t, Exc("JSONDecodeError", "", ""))
    ELSE IF IsScalar(message.j) THEN return(t, Scalar(message.j, message.val))
    ELSE IF message.j \in {"null", "array"} THEN raise(t, Exc("TypeError", "", ""))
    ELSE IF ~message.hastype
         THEN raise(IF message.path # <<>>
                    THEN AttrRef_init(t, message.path, TRUE, TRUE) ELSE t,
                    Exc("KeyError", "", "type"))
    ELSE IF message.type = "ref" THEN AttrRef_init(t, message.path, TRUE, TRUE)
    ELSE IF message.type = "error"
         THEN raise(t, ClientException(message.message, message.code))
    ELSE raise(t, ClientException("Unable to deserialize response '" \o message.text
                                      \o "'.", SERIALIZATION_ERROR))

\* Transport._decode
decode(t, message) ==
    IF message.j = "empty" THEN return(t, Scalar("str", ""))
    ELSE IF message.j = "invalid" THEN raise(t, Exc("JSONDecodeError", "", ""))
    ELSE IF IsScalar(message.j) THEN return(t, Scalar(message.j, message.val))
    ELSE IF message.j \in {"null", "array"} THEN raise(t, Exc("TypeError", "", ""))
    ELSE IF ~message.hastype THEN raise(t, Exc("KeyError", "", "type"))
    ELSE IF message.type = "ref" THEN AttrRef_init(t, message.path, TRUE, TRUE)
    ELSE IF message.type = "error"
         THEN raise(t, ClientException(message.message, message.code))
    ELSE raise(t, ClientException("Unable to deserialize response '" \o message.text
                                      \o "'.", SERIALIZATION_ERROR))

\* Transport._decode_http_response
decode_http_response(t, response) ==
    IF response.status = 200
    THEN decode(t, response.body)
    ELSE raise(t, create_from_http_status(response.status,
                      "Failed to execute request: " \o response.reason))

\* Transport._reset_connection: the old connection is closed, a new one made.
reset_connection(t) ==
    [log(t, Event("reset", "", "", "")) EXCEPT !.connection = "open"]

\* _send_http_request as it would be if it gave up on ConnectionAbortedError.
send_http_request_noretry(t, method, url, body, o) ==
    LET t1 == log(t, Event("request", method, url, body))
    IN  IF o.net = "submit_error" THEN raise(t1, Exc("OSError", "", ""))
        ELSE IF o.net \in {"abort_ok", "abort_fail"}
             THEN raise(t1, Exc("ConnectionAbortedError", "", ""))
        ELSE IF o.net = "read_error"
             THEN raise(log(t1, Event("getresponse", "", "", "")),
                        Exc("RemoteDisconnected", "", ""))
        ELSE decode_http_response(log(t1, Event("getresponse", "", "", "")), o)

\* _send_http_request as it would be if it resubmitted after any exception.
send_http_request_retryall(t, method, url, body, o) ==
    LET request == Event("request", method, url, body)
        t1 == log(t, request)
        t2 == IF o.net \in {"abort_ok", "abort_fail", "submit_error"}
              THEN log(reset_connection(t1), request)
              ELSE t1
    IN  IF o.net = "submit_error" THEN raise(t2, Exc("OSError", "", ""))
        ELSE IF o.net = "abort_fail"
             THEN raise(t2, Exc("ConnectionAbortedError", "", ""))
        ELSE IF o.net = "read_error"
             THEN raise(log(t2, Event("getresponse", "", "", "")),
                        Exc("RemoteDisconnected", "", ""))
        ELSE decode_http_response(log(t2, Event("getresponse", "", "", "")), o)

\* _send_http_request as it would be if it submitted the request again before
\* it read the response of the first.
send_http_request_pipelined(t, method, url, body, o) ==
    LET request == Event("request", method, url, body)
        t1 == log(t, request)
    IN  IF o.net = "submit_error" THEN raise(t1, Exc("OSError", "", ""))
        ELSE IF o.net = "abort_fail"
             THEN raise(log(reset_connection(t1), request),
                        Exc("ConnectionAbortedError", "", ""))
        ELSE IF o.net = "read_error"
             THEN raise(log(log(t1, request), Event("getresponse", "", "", "")),
                        Exc("RemoteDisconnected", "", ""))
        ELSE decode_http_response(
                 log(log(t1, request), Event("getresponse", "", "", "")), o)

\* Transport._send_http_request
send_http_request(t, method, url, body, o) ==
    LET request == Event("request", method, url, body)
        t1 == log(t, request)
        t2 == IF o.net \in {"abort_ok", "abort_fail"}
              THEN log(reset_connection(t1), request)
              ELSE t1
    IN  IF o.net = "submit_error" THEN raise(t1, Exc("OSError", "", ""))
        ELSE IF o.net = "abort_fail"
             THEN raise(t2, Exc("ConnectionAbortedError", "", ""))
        ELSE IF o.net = "read_error"
             THEN raise(log(t2, Event("getresponse", "", "", "")),
                        Exc("RemoteDisconnected", "", ""))
        ELSE decode_http_response(log(t2, Event("getresponse", "", "", "")), o)

http_get(t, url, o) == send_http_request(t, "GET", url, "None", o)

http_post(t, url, body, o) == send_http_request(t, "POST", url, body, o)

\* ', '.join(f'"{a}"' for a in attribute_paths)
RECURSIVE join_quoted(_)
join_quoted(paths) ==
    IF paths = <<>> THEN ""
    ELSE "\"" \o Str(Head(paths)) \o "\""
         \o (IF Len(paths) = 1 THEN "" ELSE ", " \o join_quoted(Tail(paths)))

release_body(attribute_paths) == "[" \o join_quoted(attribute_paths) \o "]"

release_url == baseUrl \o "workspace/references/release"

\* The del loop as it would be if it passed over a path the table does not
\* hold (temporary_references.pop(attribute_path, None)).
del_each_lenient(t, paths) ==
    [t EXCEPT !.refs = SelectSeq(@, LAMBDA e : \A i \in DOMAIN paths : e.path # paths[i])]

\* for attribute_path in attribute_paths: del self.temporary_references[...]
\* A missing key raises KeyError and leaves the earlier ones deleted.
RECURSIVE del_each(_, _)
del_each(t, paths) ==
    IF paths = <<>> THEN t
    ELSE IF ~dict_has(t.refs, Head(paths))
         THEN raise(t, Exc("KeyError", "", Str(Head(paths))))
    ELSE del_each([t EXCEPT !.refs = dict_del(@, Head(paths))], Tail(paths))

\* release_refs as it would be if it forgot the table and sent nothing.
release_refs_unsent(t, attribute_paths, o) ==
    IF ~t.disposed
    THEN IF Len(attribute_paths) = 0 THEN t ELSE del_each(t, attribute_paths)
    ELSE t

\* release_refs as it would be if it sent the request first and took the paths
\* out of the table once the request had gone through.
release_refs_sendfirst(t, attribute_paths, o) ==
    IF ~t.disposed
    THEN IF Len(attribute_paths) = 0 THEN t
         ELSE LET t1 == return(http_post(t, release_url,
                                         release_body(attribute_paths), o), NoVal)
              IN  IF t1.exc # NoExc THEN t1 ELSE del_each(t1, attribute_paths)
    ELSE t

\* Transport.release_refs
release_refs(t, attribute_paths, o) ==
    IF ~t.disposed
    THEN IF Len(attribute_paths) = 0 THEN t
         ELSE LET t1 == del_each(t, attribute_paths)
              IN  IF t1.exc # NoExc THEN t1
                  ELSE return(http_post(t1, release_url,
                                        release_body(attribute_paths), o), NoVal)
    ELSE t

\* _update_ref_count as it would be if a count of 0 stayed in the table.
update_ref_count_keepzero(t, ref, increment, o) ==
    IF t.disposed THEN t
    ELSE IF ~dict_has(t.refs, ref)
         THEN IF ~increment
              THEN raise(t, ClientException("", INVALID_OPERATION))
              ELSE [t EXCEPT !.refs = dict_set(@, ref, 1)]
    ELSE [t EXCEPT !.refs = dict_set(@, ref, dict_get(t.refs, ref)
                                              + (IF increment THEN 1 ELSE -1))]

\* _update_ref_count as it would be if a decrement of a missing path were let
\* through.
update_ref_count_lenient(t, ref, increment, o) ==
    IF t.disposed THEN t
    ELSE IF ~dict_has(t.refs, ref)
         THEN IF ~increment THEN t
              ELSE [t EXCEPT !.refs = dict_set(@, ref, 1)]
    ELSE LET count == dict_get(t.refs, ref) + (IF increment THEN 1 ELSE -1)
             t1 == [t EXCEPT !.refs = dict_set(@, ref, count)]
         IN  IF count = 0 THEN release_refs(t1, <<ref>>, o) ELSE t1

\* _update_ref_count as it would be if a count of 0 released the whole table.
update_ref_count_batch(t, ref, increment, o) ==
    IF t.disposed THEN t
    ELSE IF ~dict_has(t.refs, ref)
         THEN IF ~increment
              THEN raise(t, ClientException("", INVALID_OPERATION))
              ELSE [t EXCEPT !.refs = dict_set(@, ref, 1)]
    ELSE LET count == dict_get(t.refs, ref) + (IF increment THEN 1 ELSE -1)
             t1 == [t EXCEPT !.refs = dict_set(@, ref, count)]
         IN  IF count = 0 THEN release_refs(t1, dict_keys(t1.refs), o) ELSE t1

\* _update_ref_count as it would be without its disposed guard.
update_ref_count_undisposed(t, ref, increment, o) ==
    IF ~dict_has(t.refs, ref)
    THEN IF ~increment
         THEN raise(t, ClientException("", INVALID_OPERATION))
         ELSE [t EXCEPT !.refs = dict_set(@, ref, 1)]
    ELSE LET count == dict_get(t.refs, ref) + (IF increment THEN 1 ELSE -1)
             t1 == [t EXCEPT !.refs = dict_set(@, ref, count)]
         IN  IF count = 0 THEN release_refs(t1, <<ref>>, o) ELSE t1

\* _update_ref_count as it would be if an increment of a path the table holds
\* started its count again at 1.
update_ref_count_restart(t, ref, increment, o) ==
    IF t.disposed THEN t
    ELSE IF ~dict_has(t.refs, ref)
         THEN IF ~increment
              THEN raise(t, ClientException(
                       "Cannot decrement count for " \o Str(ref)
                           \o " because it was not found in the reference map.",
                       INVALID_OPERATION))
              ELSE [t EXCEPT !.refs = dict_set(@, ref, 1)]
    ELSE LET count == IF increment THEN 1 ELSE dict_get(t.refs, ref) - 1
             t1 == [t EXCEPT !.refs = dict_set(@, ref, count)]
         IN  IF count = 0 THEN release_refs(t1, <<ref>>, o) ELSE t1

\* _update_ref_count as it would be if only the decrements stopped at
\* shutdown, and references decoded later were still counted.
update_ref_count_lateadd(t, ref, increment, o) ==
    IF t.disposed /\ ~increment THEN t
    ELSE IF ~dict_has(t.refs, ref)
         THEN IF ~increment
              THEN raise(t, ClientException(
                       "Cannot decrement count for " \o Str(ref)
                           \o " because it was not found in the reference map.",
                       INVALID_OPERATION))
              ELSE [t EXCEPT !.refs = dict_set(@, ref, 1)]
    ELSE LET count == dict_get(t.refs, ref) + (IF increment THEN 1 ELSE -1)
             t1 == [t EXCEPT !.refs = dict_set(@, ref, count)]
         IN  IF count = 0 THEN release_refs(t1, <<ref>>, o) ELSE t1

\* Transport._update_ref_count
update_ref_count(t, ref, increment, o) ==
    IF t.disposed THEN t
    ELSE IF ~dict_has(t.refs, ref)
         THEN IF ~increment
              THEN raise(t, ClientException(
                       "Cannot decrement count for " \o Str(ref)
                           \o " because it was not found in the reference map.",
                       INVALID_OPERATION))
              ELSE [t EXCEPT !.refs = dict_set(@, ref, 1)]
    ELSE LET count == dict_get(t.refs, ref) + (IF increment THEN 1 ELSE -1)
             t1 == [t EXCEPT !.refs = dict_set(@, ref, count)]
         IN  IF count = 0 THEN release_refs(t1, <<ref>>, o) ELSE t1

\* close as it would be if it set disposed before it released.
close_early(t, o) ==
    IF ~t.disposed
    THEN LET t1 == release_refs([t EXCEPT !.disposed = TRUE], dict_keys(t.refs), o)
         IN  IF t1.exc # NoExc THEN t1
             ELSE [log(t1, Event("close", "", "", "")) EXCEPT !.connection = "closed"]
    ELSE t

\* close as it would be without its disposed guard.
close_unguarded(t, o) ==
    LET t1 == release_refs(t, dict_keys(t.refs), o)
    IN  IF t1.exc # NoExc THEN t1
        ELSE [log(t1, Event("close", "", "", ""))
                  EXCEPT !.connection = "closed", !.disposed = TRUE]

\* close as it would be if it closed the connection and set disposed even
\* when the release raised (try ... finally).
close_safe(t, o) ==
    IF ~t.disposed
    THEN LET t1 == release_refs(t, dict_keys(t.refs), o)
         IN  [log(t1, Event("close", "", "", ""))
                  EXCEPT !.connection = "closed", !.disposed = TRUE]
    ELSE t

\* Transport.close
close(t, o) ==
    IF ~t.disposed
    THEN LET t1 == release_refs(t, dict_keys(t.refs), o)
         IN  IF t1.exc # NoExc THEN t1
             ELSE [log(t1, Event("close", "", "", ""))
                       EXCEPT !.connection = "closed", !.disposed = TRUE]
    ELSE t

\* Transport.get
Transport_get(t, attribute_path, o) ==
    http_get(t, baseUrl \o Str(attribute_path), o)

\* json.dumps of a str made of these pieces: a double quote is escaped.
RECURSIVE json_escape(_)
json_escape(path) ==
    IF path = <<>> THEN ""
    ELSE (IF Head(path) = "\"" THEN "\\\"" ELSE Head(path)) \o json_escape(Tail(path))

\* _encode as it would be if it wrote str(value) for any other value.
encode_lenient(value) ==
    IF value.t = "AttrRef"
    THEN [exc |-> NoExc,
          text |-> "{\"type\": \"ref\", \"path\": \"" \o json_escape(value.v) \o "\"}"]
    ELSE IF value.t = "str"
         THEN [exc |-> NoExc, text |-> "\"" \o json_escape(value.v) \o "\""]
    ELSE [exc |-> NoExc, text |-> Str(value.v)]

\* _encode as it would be if it wrote a bool as Python prints it.
encode_str(value) ==
    IF value.t = "AttrRef"
    THEN [exc |-> NoExc,
          text |-> "{\"type\": \"ref\", \"path\": \"" \o json_escape(value.v) \o "\"}"]
    ELSE IF value.t \in {"bool", "float", "int"}
         THEN [exc |-> NoExc, text |-> Str(value.v)]
    ELSE IF value.t = "str"
         THEN [exc |-> NoExc, text |-> "\"" \o json_escape(value.v) \o "\""]
    ELSE IF value.t = "NoneType" THEN [exc |-> NoExc, text |-> "null"]
    ELSE [exc |-> ClientException("Value of type " \o value.t
                                      \o " cannot be encoded for a request.",
                                  SERIALIZATION_ERROR),
          text |-> ""]

\* Transport._encode: the text, or the exception. json.dumps writes a bool as
\* true or false, a number as Python prints it, a str in double quotes.
encode(value) ==
    IF value.t = "AttrRef"
    THEN [exc |-> NoExc,
          text |-> "{\"type\": \"ref\", \"path\": \"" \o json_escape(value.v) \o "\"}"]
    ELSE IF value.t = "bool"
         THEN [exc |-> NoExc, text |-> IF value.v = <<"True">> THEN "true" ELSE "false"]
    ELSE IF value.t \in {"float", "int"}
         THEN [exc |-> NoExc, text |-> Str(value.v)]
    ELSE IF value.t = "str"
         THEN [exc |-> NoExc, text |-> "\"" \o json_escape(value.v) \o "\""]
    ELSE IF value.t = "NoneType" THEN [exc |-> NoExc, text |-> "null"]
    ELSE [exc |-> ClientException("Value of type " \o value.t
                                      \o " cannot be encoded for a request.",
                                  SERIALIZATION_ERROR),
          text |-> ""]

\* Transport.set
Transport_set(t, attribute_path, value, o) ==
    LET url == baseUrl \o Str(attribute_path) \o "/set"
        body == encode(value)
    IN  IF body.exc # NoExc THEN raise(t, body.exc)
        ELSE http_post(t, url, body.text, o)

\* ','.join(self._encode(arg) for arg in arguments): the first argument that
\* cannot be encoded raises.
RECURSIVE join_encoded(_)
join_encoded(arguments) ==
    IF arguments = <<>> THEN [exc |-> NoExc, text |-> ""]
    ELSE LET head == encode(Head(arguments))
             rest == join_encoded(Tail(arguments))
         IN  IF head.exc # NoExc THEN head
             ELSE IF rest.exc # NoExc THEN rest
             ELSE [exc |-> NoExc,
                   text |-> head.text
                            \o (IF Len(arguments) = 1 THEN "" ELSE "," \o rest.text)]

\* The arguments, last first.
RECURSIVE Reverse(_)
Reverse(arguments) ==
    IF arguments = <<>> THEN <<>>
    ELSE Reverse(Tail(arguments)) \o <<Head(arguments)>>

\* Transport.invoke as it would be if it listed the arguments last first.
Transport_invoke_reversed(t, attribute_path, arguments, o) ==
    LET url == baseUrl \o Str(attribute_path) \o "/invoke"
        body == join_encoded(Reverse(arguments))
    IN  IF body.exc # NoExc THEN raise(t, body.exc)
        ELSE http_post(t, url, "[" \o body.text \o "]", o)

\* Transport.invoke
Transport_invoke(t, attribute_path, arguments, o) ==
    LET url == baseUrl \o Str(attribute_path) \o "/invoke"
        body == join_encoded(arguments)
    IN  IF body.exc # NoExc THEN raise(t, body.exc)
        ELSE http_post(t, url, "[" \o body.text \o "]", o)

\* ------------------------------------------------------------ AttrProxy
\* An AttrProxy object: its fields (the transport is the one Transport).
Obj(path, temporary) == [path |-> path, temporary |-> temporary]

\* The proxy as a Python value.
ProxyVal(self) == PyVal("AttrProxy", self.path, self.temporary, TRUE)

\* AttrProxy.__init__ as it would be if it never counted itself.
AttrProxy_init_uncounted(t, path, temporary) ==
    return(t, ProxyVal(Obj(path, temporary)))

\* AttrProxy.__init__ as it would be if every proxy counted itself.
AttrProxy_init_counted(t, path, temporary) ==
    return(increment_ref_count(t, path), ProxyVal(Obj(path, temporary)))

\* AttrProxy.__init__
AttrProxy_init(t, path, temporary) ==
    IF temporary
    THEN return(increment_ref_count(t, path), ProxyVal(Obj(path, temporary)))
    ELSE return(t, ProxyVal(Obj(path, temporary)))

\* AttrProxy.__del__
AttrProxy_del(t, self, o) ==
    IF self.temporary THEN decrement_ref_count(t, self.path, o) ELSE t

\* self.path + '.' + name
child(path, name) == path \o <<".", name>>

\* The path of the item as it would be if a str key were not quoted.
indexed_unquoted(path, key) == path \o <<"(">> \o key.v \o <<")">>

\* AttrProxy.__getitem__: the path of the item.
indexed(path, key) ==
    LET ref == IF key.t = "str" THEN <<"\"">> \o key.v \o <<"\"">> ELSE key.v
    IN  path \o <<"(">> \o ref \o <<")">>

\* _value_for_transport_request as it would be if it handed the proxy on.
value_for_transport_request_asis(value) == value

\* AttrProxy._value_for_transport_request: AttrRef(value.path) has temporary
\* unset and no transport.
value_for_transport_request(value) ==
    IF value.t = "AttrProxy" THEN PyVal("AttrRef", value.v, FALSE, FALSE)
    ELSE value

\* _value_from_transport_response as it would be if it handed the AttrRef on.
value_from_transport_response_raw(t, response) == return(t, response)

\* _value_from_transport_response as it would be if it gave the proxy the path
\* of another reference.
value_from_transport_response_other(t, response) ==
    IF response.t = "AttrRef"
    THEN AttrProxy_init(t, <<"WS._2">>, response.temporary)
    ELSE return(t, response)

\* _value_from_transport_response as it would be if it did not hand the
\* temporary flag of the AttrRef to the proxy.
value_from_transport_response_plain(t, response) ==
    IF response.t = "AttrRef"
    THEN AttrProxy_init(t, response.v, FALSE)
    ELSE return(t, response)

\* AttrProxy._value_from_transport_response
value_from_transport_response(t, response) ==
    IF response.t = "AttrRef"
    THEN AttrProxy_init(t, response.v, response.temporary)
    ELSE return(t, response)

\* ---------------------------------------------------------------- state
VARIABLES
    temporary_references,   \* Transport.temporary_references
    disposed,               \* Transport.disposed
    connection,             \* "open", or "closed" once close() was called on it
    objs,                   \* the live AttrProxy objects (a bag of them)
    response,               \* the decoded AttrRef a running operation holds
    pc,                     \* where the running operation stands
    op,                     \* the operation that runs or ran last
    trace,                  \* what that operation did to the connection
    error,                  \* the exception the last step raised
    result,                 \* the value that operation returned
    exited,                 \* the process-exit hook has run
    close_called,           \* history: close has been called at least once
    gen,                    \* the generator object an iteration of a proxy made
    server                  \* the server: the JSON text it holds for
                            \* ODTK.application and the references it has out

vars == <<temporary_references, disposed, connection, objs, response, pc, op,
          trace, error, result, exited, close_called, gen, server>>

\* Client._root
Root == Obj(ROOT, FALSE)

\* A generator object of AttrProxy.__iter__: where it stands ("none" when the
\* caller holds no generator, "new" before its first next(), "running" after
\* a yield, "done" once it returned or raised), the path of the proxy it
\* iterates, the count it read, and the index it yields next.
Gen(state, path, n, i) == [state |-> state, path |-> path, n |-> n, i |-> i]

NoGen == Gen("none", <<>>, 0, 0)

\* The server before anything is written: a text for ODTK.application, and no
\* reference handed out.
ServerInit == [value |-> "\"Alpha\"", refs |-> {}]

Live == BagToSet(objs)

HasFree == BagCardinality(objs) < MaxObjs

New(o) == objs (+) SetToBag({o})

\* Attribute accesses and indexings in a path.
Depth(path) == Cardinality({i \in DOMAIN path : path[i] \in {".", "("}})

\* What the caller navigates with and passes.
Names == {"application"}
CountNames == {"count"}
Keys == {Scalar("int", "0")}
Values == {Scalar("int", "7")}

\* The Transport as an operation finds it, with no event yet, and as a
\* running operation goes on with it.
T0 == TState(temporary_references, disposed, connection, <<>>)
TCont == TState(temporary_references, disposed, connection, trace)

Commit(t) ==
    /\ temporary_references' = t.refs
    /\ disposed' = t.disposed
    /\ connection' = t.connection
    /\ trace' = t.trace
    /\ error' = t.exc

\* Client.__init__: Transport.__init__ and the root proxy.
Init ==
    /\ temporary_references = <<>>
    /\ disposed = FALSE
    /\ connection = "open"
    /\ objs = SetToBag({Root})
    /\ response = NoVal
    /\ pc = "idle"
    /\ op = "init"
    /\ trace = <<>>
    /\ error = NoExc
    /\ result = NoVal
    /\ exited = FALSE
    /\ close_called = FALSE
    /\ gen = NoGen
    /\ server = ServerInit

CanCall == pc = "idle" /\ ~exited

\* The transport call of a resolving operation has returned or raised. A
\* decoded AttrRef stays in the operation's frame until the frame is left;
\* any other value is what the operation returns (set returns nothing).
Resolved(t, name) ==
    /\ Commit(t)
    /\ op' = name
    /\ IF t.exc = NoExc /\ t.value.t = "AttrRef"
       THEN response' = t.value /\ pc' = "decoded" /\ result' = NoVal
       ELSE /\ response' = NoVal
            /\ pc' = "idle"
            /\ result' = IF name = "set" \/ t.exc # NoExc THEN NoVal
                         ELSE value_from_transport_response(t, t.value).value
    /\ UNCHANGED <<objs, exited, close_called>>

\* AttrProxy.eval
Eval(self, o) ==
    /\ CanCall /\ HasFree
    /\ Resolved(Transport_get(T0, self.path, o), "eval")

\* name.lower() as it would be if it left the name as it is.
lower_asis(name) == name

\* name.lower(), on the names the caller uses.
lower(name) ==
    CASE name \in {"Count", "COUNT"} -> "count"
      [] name = "Counts" -> "counts"
      [] OTHER -> name

\* AttrProxy.__getattr__ with a name that lower-cases to 'count'
GetCount(self, name, o) ==
    /\ CanCall /\ HasFree
    /\ lower(name) = "count"
    /\ Resolved(Transport_get(T0, child(self.path, name), o), "count")

\* __setattr__ as it would be if the names of the proxy's own fields were
\* assigned on the proxy itself.
SetAttr_direct(self, name, value, o) ==
    /\ CanCall
    /\ IF name = "path" /\ value.t = "str"
       THEN /\ objs' = (objs (-) SetToBag({self}))
                           (+) SetToBag({Obj(value.v, self.temporary)})
            /\ Commit(T0)
            /\ op' = "set"
            /\ result' = NoVal
            /\ UNCHANGED <<response, pc, exited, close_called>>
       ELSE Resolved(Transport_set(T0, child(self.path, name),
                                   value_for_transport_request(value), o), "set")

\* AttrProxy.__setattr__
SetAttr(self, name, value, o) ==
    /\ CanCall
    /\ Resolved(Transport_set(T0, child(self.path, name),
                              value_for_transport_request(value), o), "set")

\* AttrProxy.__call__
Call(self, args, o) ==
    /\ CanCall /\ HasFree
    /\ Resolved(Transport_invoke(T0, self.path,
                    [i \in DOMAIN args |-> value_for_transport_request(args[i])],
                    o), "invoke")

\* _value_from_transport_response wraps the decoded AttrRef in an AttrProxy,
\* which the operation returns.
Wrap ==
    /\ pc = "decoded" /\ op # "set"
    /\ LET t == value_from_transport_response(TCont, response)
       IN  /\ Commit(t)
           /\ objs' = New(Obj(t.value.v, t.value.temporary))
           /\ result' = t.value
    /\ pc' = "wrapped"
    /\ UNCHANGED <<response, op, exited, close_called>>

\* The frame that holds the decoded AttrRef is left (eval, count, invoke), or
\* Transport.set drops the value it got: AttrRef.__del__ runs. An exception
\* raised in __del__ is reported and not propagated.
DropResponse(o) ==
    /\ pc = "wrapped" \/ (pc = "decoded" /\ op = "set")
    /\ Commit(AttrRef_del(TCont, response, o))
    /\ response' = NoVal
    /\ pc' = "idle"
    /\ UNCHANGED <<objs, op, result, exited, close_called>>

\* __getattr__ with any other name as it would be if the child were temporary.
GetAttr_counted(self, name) ==
    /\ CanCall /\ HasFree
    /\ lower(name) # "count"
    /\ Depth(self.path) < MaxDepth
    /\ LET t == AttrProxy_init(T0, child(self.path, name), TRUE)
       IN  /\ Commit(t)
           /\ objs' = New(Obj(t.value.v, t.value.temporary))
           /\ result' = t.value
    /\ op' = "getattr"
    /\ UNCHANGED <<response, pc, exited, close_called>>

\* AttrProxy.__getattr__ with any other name
GetAttr(self, name) ==
    /\ CanCall /\ HasFree
    /\ lower(name) # "count"
    /\ Depth(self.path) < MaxDepth
    /\ LET t == AttrProxy_init(T0, child(self.path, name), FALSE)
       IN  /\ Commit(t)
           /\ objs' = New(Obj(t.value.v, t.value.temporary))
           /\ result' = t.value
    /\ op' = "getattr"
    /\ UNCHANGED <<response, pc, exited, close_called>>

\* AttrProxy.__getitem__
GetItem(self, key) ==
    /\ CanCall /\ HasFree
    /\ Depth(self.path) < MaxDepth
    /\ LET t == AttrProxy_init(T0, indexed(self.path, key), FALSE)
       IN  /\ Commit(t)
           /\ objs' = New(Obj(t.value.v, t.value.temporary))
           /\ result' = t.value
    /\ op' = "getitem"
    /\ UNCHANGED <<response, pc, exited, close_called>>

\* The caller drops a proxy, or the interpreter tears it down after the exit
\* hook: AttrProxy.__del__ runs. The root lives as long as the Client.
Destroy(self, o) ==
    /\ pc = "idle"
    /\ self # Root \/ exited
    /\ Commit(AttrProxy_del(T0, self, o))
    /\ objs' = objs (-) SetToBag({self})
    /\ op' = "del"
    /\ result' = NoVal
    /\ UNCHANGED <<response, pc, exited, close_called>>

\* The caller calls Transport.close.
Close(o) ==
    /\ CanCall
    /\ Commit(close(T0, o))
    /\ op' = "close"
    /\ result' = NoVal
    /\ close_called' = TRUE
    /\ UNCHANGED <<objs, response, pc, exited>>

\* The process exits: atexit runs the registered Transport.close.
Exit(o) ==
    /\ CanCall
    /\ Commit(close(T0, o))
    /\ op' = "exit"
    /\ result' = NoVal
    /\ exited' = TRUE
    /\ close_called' = TRUE
    /\ UNCHANGED <<objs, response, pc>>

Next ==
    \/ \E self \in Live, o \in Outcomes : Eval(self, o) /\ UNCHANGED <<gen, server>>
    \/ \E self \in Live, name \in Names \cup CountNames, o \in Outcomes :
           GetCount(self, name, o) /\ UNCHANGED <<gen, server>>
    \/ \E self \in Live, name \in Names, value \in Values, o \in Outcomes :
           SetAttr(self, name, value, o) /\ UNCHANGED <<gen, server>>
    \/ \E self \in Live, args \in {<<>>} \cup {<<v>> : v \in Values}, o \in Outcomes :
           Call(self, args, o) /\ UNCHANGED <<gen, server>>
    \/ Wrap /\ UNCHANGED <<gen, server>>
    \/ \E o \in ReleaseOutcomes : DropResponse(o) /\ UNCHANGED <<gen, server>>
    \/ \E self \in Live, name \in Names \cup CountNames : GetAttr(self, name)
           /\ UNCHANGED <<gen, server>>
    \/ \E self \in Live, o \in ReleaseOutcomes : Destroy(self, o)
           /\ UNCHANGED <<gen, server>>
    \/ \E o \in ReleaseOutcomes : Close(o) /\ UNCHANGED <<gen, server>>
    \/ \E o \in ReleaseOutcomes : Exit(o) /\ UNCHANGED <<gen, server>>

Spec == Init /\ [][Next]_vars

\* ------------------------------------------------- the wire, in full
\* The caller calls Transport.release_refs itself.
ReleaseRefs(attribute_paths, o) ==
    /\ CanCall
    /\ Commit(release_refs(T0, attribute_paths, o))
    /\ op' = "release"
    /\ result' = NoVal
    /\ UNCHANGED <<objs, response, pc, exited, close_called>>

\* The lists of paths the caller hands to release_refs.
ReleaseLists ==
    {<<>>} \cup UNION {[1 .. n -> RefPaths] : n \in 1 .. Cardinality(RefPaths)}

\* The same client, its proxies held at the root and at the references the
\* server hands out, against every outcome a request can have.
WireNext ==
    \/ \E self \in Live, o \in WireOutcomes : Eval(self, o) /\ UNCHANGED <<gen, server>>
    \/ \E self \in Live, name \in CountNames, o \in WireOutcomes :
           GetCount(self, name, o) /\ UNCHANGED <<gen, server>>
    \/ \E self \in Live, name \in Names, value \in Values, o \in WireOutcomes :
           SetAttr(self, name, value, o) /\ UNCHANGED <<gen, server>>
    \/ \E self \in Live, o \in WireOutcomes : Call(self, <<>>, o)
           /\ UNCHANGED <<gen, server>>
    \/ Wrap /\ UNCHANGED <<gen, server>>
    \/ \E o \in ReleaseOutcomes : DropResponse(o) /\ UNCHANGED <<gen, server>>
    \/ \E l \in ReleaseLists, o \in ReleaseOutcomes : ReleaseRefs(l, o)
           /\ UNCHANGED <<gen, server>>
    \/ \E self \in Live, o \in ReleaseOutcomes : Destroy(self, o)
           /\ UNCHANGED <<gen, server>>
    \/ \E o \in ReleaseOutcomes : Close(o) /\ UNCHANGED <<gen, server>>

WireSpec == Init /\ [][WireNext]_vars

\* ------------------------------------------------------- navigation
\* The names the caller navigates with, in every spelling of 'count'.
NavNames == {"application", "count", "Count", "COUNT", "Counts"}

\* What the server answers to a read of a count: a number, a reference, or
\* an error.
NavOutcomes ==
    {Outcome("ok", 200, "OK", b) :
        b \in {BodyInt, BodyRef(<<"WS._1">>),
               BodyError(INVALID_ATTRIBUTE_PATH, "Undefined symbol")}}

\* A release that goes through.
NavRelease == {Outcome("ok", 200, "OK", BodyEmpty)}

NavFree == BagCardinality(objs) < NavObjs

\* The same client, navigated by attribute and by index and asked for counts.
NavNext ==
    \/ \E self \in Live, name \in NavNames : NavFree /\ GetAttr(self, name)
           /\ UNCHANGED <<gen, server>>
    \/ \E self \in Live, key \in Keys : NavFree /\ GetItem(self, key)
           /\ UNCHANGED <<gen, server>>
    \/ \E self \in Live, name \in NavNames, o \in NavOutcomes :
           NavFree /\ GetCount(self, name, o) /\ UNCHANGED <<gen, server>>
    \/ Wrap /\ UNCHANGED <<gen, server>>
    \/ \E o \in NavRelease : DropResponse(o) /\ UNCHANGED <<gen, server>>
    \/ \E self \in Live, o \in NavRelease : Destroy(self, o) /\ UNCHANGED <<gen, server>>

NavSpec == Init /\ [][NavNext]_vars

\* ------------------------------------------- indexing and iteration
\* The keys the caller indexes with: a position, a name, and a key that is
\* neither (v holds what str(key) gives).
IndexKeys == {Scalar("int", "0"), Scalar("str", "Satellite"), Scalar("bool", "True")}

\* The server answers the read of a count with a number.
BodyCount(n) == Json("int", ToString(n), ToString(n), FALSE, "", <<>>, "", "")

\* What the read of a count is answered with when a proxy is iterated: a
\* number, a text, or an error. (A reference is not drawn here.)
CountOutcomes ==
    {Outcome("ok", 200, "OK", b) :
        b \in {BodyCount(n) : n \in 0 .. MaxCount}
               \cup {BodyStr, BodyError(INVALID_ATTRIBUTE_PATH, "Undefined symbol")}}

\* The int a decoded bool or int is, as range() takes it.
int_of(value) ==
    IF value.t = "bool" THEN (IF value.v = <<"True">> THEN 1 ELSE 0)
    ELSE CHOOSE n \in 0 .. MaxCount : ToString(n) = value.v[1]

\* AttrProxy.__iter__ is called (by iter() or a for statement): a generator
\* object is made, and no line of the body runs yet.
Iter(self) ==
    /\ CanCall
    /\ Depth(self.path) < MaxDepth
    /\ gen' = Gen("new", self.path, 0, 0)
    /\ Commit(T0)
    /\ op' = "iter"
    /\ result' = NoVal
    /\ UNCHANGED <<objs, response, pc, exited, close_called>>

\* Resume as it would be if the loop read self.count again at every turn.
Resume_recount(o) ==
    /\ CanCall
    /\ gen.state \in {"new", "running"}
    /\ LET t0 == Transport_get(T0, child(gen.path, "count"), o)
           t1 == IF t0.exc = NoExc /\ t0.value.t \notin {"bool", "int"}
                 THEN raise(t0, Exc("TypeError", "", "")) ELSE t0
           n == IF t1.exc = NoExc THEN int_of(t0.value) ELSE 0
           i == IF gen.state = "new" THEN 0 ELSE gen.i
       IN  IF t1.exc # NoExc
           THEN /\ Commit(t1)
                /\ gen' = Gen("done", gen.path, 0, 0)
                /\ result' = NoVal /\ objs' = objs
           ELSE IF i < n
           THEN /\ HasFree
                /\ LET t2 == AttrProxy_init(
                                 t1, indexed(gen.path, Scalar("int", ToString(i))), FALSE)
                   IN  /\ Commit(t2)
                       /\ objs' = New(Obj(t2.value.v, t2.value.temporary))
                       /\ result' = t2.value
                /\ gen' = Gen("running", gen.path, n, i + 1)
           ELSE /\ Commit(t1)
                /\ gen' = Gen("done", gen.path, n, i)
                /\ result' = NoVal /\ objs' = objs
    /\ op' = "next"
    /\ UNCHANGED <<response, pc, exited, close_called>>

\* next() on the generator: the body of AttrProxy.__iter__ runs to its next
\* yield or to its end. The first next() evaluates range(0, self.count), which
\* reads the count (and raises TypeError when it is no int); every next()
\* then yields self[i] for the next i of the range, or ends the pass.
Resume(o) ==
    /\ CanCall
    /\ gen.state \in {"new", "running"}
    /\ LET t0 == IF gen.state = "new"
                 THEN Transport_get(T0, child(gen.path, "count"), o)
                 ELSE T0
           t1 == IF gen.state = "new" /\ t0.exc = NoExc
                    /\ t0.value.t \notin {"bool", "int"}
                 THEN raise(t0, Exc("TypeError", "", "")) ELSE t0
           n == IF gen.state = "new"
                THEN (IF t1.exc = NoExc THEN int_of(t0.value) ELSE 0)
                ELSE gen.n
           i == IF gen.state = "new" THEN 0 ELSE gen.i
       IN  IF t1.exc # NoExc
           THEN /\ Commit(t1)
                /\ gen' = Gen("done", gen.path, 0, 0)
                /\ result' = NoVal /\ objs' = objs
           ELSE IF i < n
           THEN /\ HasFree
                /\ LET t2 == AttrProxy_init(
                                 t1, indexed(gen.path, Scalar("int", ToString(i))), FALSE)
                   IN  /\ Commit(t2)
                       /\ objs' = New(Obj(t2.value.v, t2.value.temporary))
                       /\ result' = t2.value
                /\ gen' = Gen("running", gen.path, n, i + 1)
           ELSE /\ Commit(t1)
                /\ gen' = Gen("done", gen.path, n, i)
                /\ result' = NoVal /\ objs' = objs
    /\ op' = "next"
    /\ UNCHANGED <<response, pc, exited, close_called>>

\* The generator keeps the proxy it iterates alive.
GenHolds(self) == gen.state \in {"new", "running"} /\ gen.path = self.path

\* The same client, indexed and iterated.
IndexNext ==
    \/ \E self \in Live, key \in IndexKeys : GetItem(self, key)
           /\ UNCHANGED <<gen, server>>
    \/ \E self \in Live : Iter(self) /\ UNCHANGED server
    \/ \E o \in CountOutcomes : gen.state = "new" /\ Resume(o) /\ UNCHANGED server
    \/ gen.state = "running" /\ Resume(NoOutcome) /\ UNCHANGED server
    \/ \E self \in Live, o \in NavRelease :
           ~GenHolds(self) /\ Destroy(self, o) /\ UNCHANGED <<gen, server>>

IndexSpec == Init /\ [][IndexNext]_vars

\* ------------------------------------------- assignments and calls
\* The names the caller assigns to: an attribute, and the name of one of the
\* proxy's own fields.
SetNames == {"application", "path"}

\* A value _encode has no case for.
ListValue == PyVal("list", <<"[1, 2]">>, FALSE, FALSE)

\* The values the caller assigns: scalars, a list, and the proxies it holds.
ArgValues ==
    {Scalar("int", "7"), Scalar("str", "Alpha"), ListValue}
    \cup {ProxyVal(o) : o \in Live}

\* The argument lists the caller calls with.
ArgLists ==
    {<<>>, <<ListValue>>, <<ProxyVal(Root), ListValue>>}
    \cup {<<Scalar("str", "Alpha"), ProxyVal(o)>> : o \in Live}
    \cup {<<ProxyVal(o), Scalar("bool", "True")>> : o \in Live}

\* What a write or a call is answered with here: nothing, a number, a
\* reference, or an error.
ArgOutcomes ==
    {Outcome("ok", 200, "OK", b) :
        b \in {BodyEmpty, BodyInt, BodyRef(<<"WS._1">>),
               BodyError(INVALID_ATTRIBUTE_PATH, "Undefined symbol")}}

ArgFree == BagCardinality(objs) < ArgObjs

\* The same client, assigning values to attributes and calling them.
ArgNext ==
    \/ \E self \in Live, name \in Names : ArgFree /\ GetAttr(self, name)
           /\ UNCHANGED <<gen, server>>
    \/ \E self \in Live, name \in SetNames, value \in ArgValues, o \in ArgOutcomes :
           SetAttr(self, name, value, o) /\ UNCHANGED <<gen, server>>
    \/ \E self \in Live, args \in ArgLists, o \in ArgOutcomes :
           ArgFree /\ Call(self, args, o) /\ UNCHANGED <<gen, server>>
    \/ Wrap /\ UNCHANGED <<gen, server>>
    \/ \E o \in NavRelease : DropResponse(o) /\ UNCHANGED <<gen, server>>
    \/ \E self \in Live, o \in NavRelease : Destroy(self, o)
           /\ UNCHANGED <<gen, server>>

ArgSpec == Init /\ [][ArgNext]_vars

\* ------------------------------------------- a server that keeps the contract
\* The scalars the caller writes: both bools, an int, a float, and texts,
\* one that reads as a number and the empty one.
ScalarSamples ==
    {Scalar("bool", "True"), Scalar("bool", "False"), Scalar("int", "7"),
     Scalar("float", "1.5"), Scalar("str", "Alpha"), Scalar("str", "7"),
     Scalar("str", "")}

\* json.loads, on the texts a stored scalar is sent back as: val is the
\* Python value as Python prints it. Any other text is no JSON.
json_loads(text) ==
    CASE text = "true" -> Json("bool", text, "True", FALSE, "", <<>>, "", "")
      [] text = "false" -> Json("bool", text, "False", FALSE, "", <<>>, "", "")
      [] text = "7" -> Json("int", text, "7", FALSE, "", <<>>, "", "")
      [] text = "1.5" -> Json("float", text, "1.5", FALSE, "", <<>>, "", "")
      [] text = "\"Alpha\"" -> Json("str", text, "Alpha", FALSE, "", <<>>, "", "")
      [] text = "\"7\"" -> Json("str", text, "7", FALSE, "", <<>>, "", "")
      [] text = "\"\"" -> Json("str", text, "", FALSE, "", <<>>, "", "")
      [] OTHER -> Json("invalid", text, "", FALSE, "", <<>>, "", "")

\* The reference the server hands out for the root object.
Handle == <<"WS._1">>

\* The path the server resolves a request path to: a reference it has out
\* stands for the root object, one it has not stands for nothing.
Resolve(sv, path) ==
    IF <<Head(path)>> \in RefPaths
    THEN (IF <<Head(path)>> \in sv.refs THEN ROOT \o Tail(path) ELSE <<>>)
    ELSE path

\* What the server answers to a read of the path: a reference for the root
\* object, the stored text for its application, an error for anything else.
ServerGet(sv, path) ==
    IF Resolve(sv, path) = ROOT THEN BodyRef(Handle)
    ELSE IF Resolve(sv, path) = child(ROOT, "application") THEN json_loads(sv.value)
    ELSE BodyError(INVALID_ATTRIBUTE_PATH, "Undefined symbol")

\* The server after it answered the read: the reference it handed out is out.
AfterGet(sv, path) ==
    IF Resolve(sv, path) = ROOT THEN [sv EXCEPT !.refs = @ \cup {Handle}] ELSE sv

\* What the server answers to a write: nothing when it stored the text.
ServerSet(sv, path) ==
    IF Resolve(sv, path) = child(ROOT, "application") THEN BodyEmpty
    ELSE BodyError(INVALID_ATTRIBUTE_PATH, "Undefined symbol")

\* The server after the write: it holds the text it was sent.
AfterSet(sv, path, text) ==
    IF Resolve(sv, path) = child(ROOT, "application") THEN [sv EXCEPT !.value = text]
    ELSE sv

\* The server after the events of a step: a reference named in a release
\* request is out no longer.
AfterRelease(sv, events) ==
    [sv EXCEPT !.refs =
        {p \in @ : \A i \in DOMAIN events :
                       events[i] # Event("request", "POST", release_url,
                                         release_body(<<p>>))}]

ServerOk(body) == Outcome("ok", 200, "OK", body)

\* AttrProxy.eval, answered by this server: room for a new proxy is needed
\* only when the answer is a reference.
ServerEval(self) ==
    /\ CanCall
    /\ (ServerGet(server, self.path).type = "ref") => HasFree
    /\ Resolved(Transport_get(T0, self.path, ServerOk(ServerGet(server, self.path))),
                "eval")
    /\ server' = AfterGet(server, self.path)

\* An assignment of a scalar, answered by this server.
ServerSetAttr(self, name, value) ==
    /\ SetAttr(self, name, value, ServerOk(ServerSet(server, child(self.path, name))))
    /\ server' = AfterSet(server, child(self.path, name),
                          encode(value_for_transport_request(value)).text)

\* The decoded reference is dropped; this server takes the release, if one
\* is sent.
ServerDrop ==
    /\ DropResponse(ServerOk(BodyEmpty))
    /\ server' = AfterRelease(server, trace')

\* A proxy is dropped; this server takes the release, if one is sent.
ServerDestroy(self) ==
    /\ Destroy(self, ServerOk(BodyEmpty))
    /\ server' = AfterRelease(server, trace')

\* The same client against a server that keeps the wire contract and stores
\* what it is sent.
ServerNext ==
    \/ \E self \in Live, name \in Names : GetAttr(self, name)
           /\ UNCHANGED <<gen, server>>
    \/ \E self \in Live : ServerEval(self) /\ UNCHANGED gen
    \/ \E self \in Live, name \in Names, value \in ScalarSamples :
           ServerSetAttr(self, name, value) /\ UNCHANGED gen
    \/ Wrap /\ UNCHANGED <<gen, server>>
    \/ ServerDrop /\ UNCHANGED gen
    \/ \E self \in Live : ServerDestroy(self) /\ UNCHANGED gen

ServerSpec == Init /\ [][ServerNext]_vars

\* ------------------------------------------------------------ the claims
\* The count the reference table holds for a path, 0 when it has none.
RefCount(path) ==
    IF dict_has(temporary_references, path)
    THEN dict_get(temporary_references, path)
    ELSE 0

\* The live temporary AttrProxy objects with this path.
ProxyHolders(path) == CopiesIn(Obj(path, TRUE), objs)

\* The live AttrRef with this path that counts on the transport.
RefHolders(path) ==
    IF response.t = "AttrRef" /\ response.temporary /\ response.transport
       /\ response.v = path
    THEN 1 ELSE 0

Holders(path) == ProxyHolders(path) + RefHolders(path)

CountsMatchHolders == \A p \in RefPaths : RefCount(p) = Holders(p)

\* What this step did to the connection.
StepEvents ==
    IF pc = "idle" THEN trace' ELSE SubSeq(trace', Len(trace) + 1, Len(trace'))

\* The requests among these events, a resubmission after a reset not counted
\* again.
Requests(events) ==
    {i \in DOMAIN events :
        events[i].ev = "request" /\ (i = 1 \/ events[i - 1].ev # "reset")}

IsRelease(e) == e.ev = "request" /\ e.method = "POST" /\ e.url = release_url

\* The lists of distinct reference paths.
PathLists ==
    {l \in UNION {[1 .. n -> RefPaths] : n \in 1 .. Cardinality(RefPaths)} :
        \A i, j \in DOMAIN l : l[i] = l[j] => i = j}

\* The release request e names the path.
ReleaseNames(e, path) ==
    /\ IsRelease(e)
    /\ \E l \in PathLists : e.body = release_body(l) /\ \E i \in DOMAIN l : l[i] = path

ReleaseRequest(paths) == Event("request", "POST", release_url, release_body(paths))

\* This step destroys a temporary holder of the path: a proxy is dropped, or
\* the frame that held the decoded AttrRef is left.
DecrementOf(path) ==
    \/ pc = "idle" /\ op' = "del" /\ ProxyHolders(path)' < ProxyHolders(path)
    \/ RefHolders(path) = 1 /\ RefHolders(path)' = 0

\* This step is a call of Transport.close, by the caller or by the exit hook.
CloseStep == pc = "idle" /\ op' \in {"close", "exit"} /\ close_called'

\* C1: while the transport is not disposed, the count of each path is the
\* number of live temporary AttrProxy and AttrRef objects holding it (absent
\* when that number is 0).
C1_CountIsHolders == ~disposed => CountsMatchHolders

C3_DrainReleasesOnce ==
    /\ [](\A p \in RefPaths : Holders(p) = 0 => ~dict_has(temporary_references, p))
    /\ [][\A p \in RefPaths :
              (dict_has(temporary_references, p) /\ ~dict_has(temporary_references', p))
              => Cardinality({i \in Requests(StepEvents) :
                                 ReleaseNames(StepEvents[i], p)}) = 1]_vars

C3_Witness ==
    /\ op = "del" /\ ~disposed /\ ~close_called
    /\ \E p \in RefPaths :
          /\ Holders(p) = 0 /\ ~dict_has(temporary_references, p)
          /\ trace # <<>> /\ trace[1] = ReleaseRequest(<<p>>)

\* C4: every count in the table is at least 1.
C4_CountsPositive ==
    \A i \in DOMAIN temporary_references : temporary_references[i].count >= 1

C4_Witness ==
    /\ op = "set" /\ pc = "idle" /\ ~disposed
    /\ \E i \in DOMAIN trace : IsRelease(trace[i])
    /\ \E i \in DOMAIN temporary_references : temporary_references[i].count = 2

\* C5: on a transport that is not disposed, a decrement for a path the table
\* does not hold raises a ClientException with code InvalidOperation, leaves
\* the table as it was and sends nothing.
C5_DecrementAbsentFails ==
    [][\A p \in RefPaths :
           (DecrementOf(p) /\ ~disposed /\ ~dict_has(temporary_references, p))
           => /\ error'.cls = "ClientException"
              /\ error'.code = INVALID_OPERATION
              /\ temporary_references' = temporary_references
              /\ StepEvents = <<>>]_vars

C5_Witness ==
    /\ op = "del" /\ ~disposed
    /\ error.cls = "ClientException" /\ error.code = INVALID_OPERATION
    /\ trace = <<>>

\* C6: no destruction ever decrements a path the table does not hold, so no
\* step raises InvalidOperation.
C6_NoInvalidOperation == error.code # INVALID_OPERATION

\* C7: outside shutdown, a decrement that brings a count to 0 removes the
\* entry and at once sends one release request naming that path alone, before
\* anything else; no release request outside shutdown names two paths.
C7_DrainReleasesAlone ==
    [][/\ \A p \in RefPaths :
              (DecrementOf(p) /\ ~disposed /\ RefCount(p) = 1)
              => /\ ~dict_has(temporary_references', p)
                 /\ StepEvents # <<>>
                 /\ StepEvents[1] = ReleaseRequest(<<p>>)
                 /\ Cardinality(Requests(StepEvents)) = 1
       /\ ~CloseStep
              => \A i \in DOMAIN StepEvents :
                     IsRelease(StepEvents[i])
                     => \E p \in RefPaths : StepEvents[i] = ReleaseRequest(<<p>>)]_vars

C7_Witness ==
    /\ op = "del" /\ ~disposed /\ ~close_called
    /\ Len(temporary_references) = 1
    /\ \E p \in RefPaths :
          /\ ~dict_has(temporary_references, p)
          /\ trace # <<>> /\ trace[1] = ReleaseRequest(<<p>>)

\* The events of a kind.
EventsOf(events, kind) == {i \in DOMAIN events : events[i].ev = kind}

\* C8: close on a transport that is not disposed sends one release request
\* whose paths are those of the table (none when the table is empty), and
\* closes the connection and sets disposed only after it, when it did not raise.
C8_CloseReleasesThenCloses ==
    [][(CloseStep /\ ~disposed)
       => LET keys == dict_keys(temporary_references)
          IN  /\ Cardinality(Requests(trace')) = IF keys = <<>> THEN 0 ELSE 1
              /\ \A i \in EventsOf(trace', "request") :
                     trace'[i] = ReleaseRequest(keys)
              /\ temporary_references' = <<>>
              /\ disposed' <=> error' = NoExc
              /\ disposed'
                     => /\ connection' = "closed"
                        /\ EventsOf(trace', "close") = {Len(trace')}
              /\ ~disposed'
                     => /\ connection' = connection
                        /\ EventsOf(trace', "close") = {}]_vars

C8_Witness ==
    /\ op = "close" /\ disposed /\ connection = "closed"
    /\ Len(trace) = 3
    /\ \E l \in PathLists : Len(l) = 2 /\ trace[1] = ReleaseRequest(l)
    /\ trace[3].ev = "close"

\* C9: a close that follows a close sends nothing, raises nothing and closes
\* no connection a second time; when the first one returned, it changes
\* nothing at all.
C9_SecondCloseIsNoOp ==
    [][(op = "close" /\ pc = "idle" /\ op' = "close")
       => /\ EventsOf(trace', "request") = {}
          /\ error' = NoExc
          /\ Cardinality(EventsOf(trace, "close"))
                 + Cardinality(EventsOf(trace', "close")) <= 1
          /\ error = NoExc
                 => /\ trace' = <<>>
                    /\ UNCHANGED <<temporary_references, disposed, connection,
                                   objs, response, pc>>]_vars

C9_Witness == op = "close" /\ disposed /\ trace = <<>> /\ error = NoExc

\* C10: once the exit hook has run the transport is disposed and the
\* connection closed, and the hook named every path of the table in one
\* release request.
C10_ExitHookCleansUp ==
    /\ [](exited => disposed /\ connection = "closed")
    /\ [][(CloseStep /\ op' = "exit" /\ ~disposed)
          => \A i \in EventsOf(trace', "request") :
                 trace'[i] = ReleaseRequest(dict_keys(temporary_references))]_vars

\* This step runs an increment or a decrement and nothing else: the decoded
\* AttrRef is wrapped, the frame that held it is left, or a proxy is dropped.
CountingStep == pc # "idle" \/ (pc = "idle" /\ op' = "del")

\* C11: once the transport is disposed, every increment and every decrement,
\* for any path and whatever the table holds, raises nothing, leaves the
\* table as it was and sends nothing; so does every step that wraps a decoded
\* reference or destroys a holder.
C11_NoOpAfterShutdown ==
    [][disposed
       => /\ \A p \in RefPaths, increment \in BOOLEAN, o \in ReleaseOutcomes :
                 update_ref_count(T0, p, increment, o) = T0
          /\ CountingStep
                 => /\ error' = NoExc
                    /\ temporary_references' = temporary_references
                    /\ StepEvents = <<>>]_vars

\* A whole read after shutdown: the reference it decoded was counted twice
\* and dropped once, and the table is still empty.
C11_Witness ==
    /\ disposed /\ pc = "idle" /\ op = "eval"
    /\ result.t = "AttrProxy" /\ result.temporary
    /\ temporary_references = <<>>
    /\ ProxyHolders(result.v) >= 1

\* C12: release_refs raises nothing, leaves the table as it was and sends
\* nothing when the list is empty or the transport is disposed; otherwise it
\* sends one request, which names all the given paths.
C12_ReleaseRefs ==
    [][\A l \in ReleaseLists, o \in ReleaseOutcomes :
           ReleaseRefs(l, o)
           => IF l = <<>> \/ disposed
              THEN /\ trace' = <<>>
                   /\ temporary_references' = temporary_references
                   /\ error' = NoExc
              ELSE /\ Cardinality(Requests(trace')) = 1
                   /\ \A i \in EventsOf(trace', "request") :
                          trace'[i] = ReleaseRequest(l)]_vars

\* The requests the operations send, one of each kind.
SampleRequests ==
    {Event("request", "GET", baseUrl \o Str(ROOT), "None"),
     Event("request", "POST", baseUrl \o Str(child(ROOT, "application")) \o "/set", "7"),
     Event("request", "POST", baseUrl \o Str(ROOT) \o "/invoke", "[]"),
     ReleaseRequest(<<<<"WS._1">>>>)}

\* The submission of the request raises ConnectionAbortedError.
Aborts(o) == o.net \in {"abort_ok", "abort_fail"}

\* C13: when the submission raises ConnectionAbortedError the transport
\* resets the connection and submits the same request (method, URL, body)
\* once more, and an exception of the second submission propagates; no step
\* submits more than twice, and a second submission is the first one again,
\* right after the one reset.
C13_AbortRetriedOnce ==
    /\ [](\A r \in SampleRequests, o \in WireOutcomes :
              Aborts(o)
              => LET t == send_http_request(T0, r.method, r.url, r.body, o)
                 IN  /\ Len(t.trace) >= 3
                     /\ t.trace[1] = r /\ t.trace[2].ev = "reset" /\ t.trace[3] = r
                     /\ Cardinality(EventsOf(t.trace, "request")) = 2
                     /\ Cardinality(EventsOf(t.trace, "reset")) = 1
                     /\ o.net = "abort_fail"
                            => t.exc.cls = "ConnectionAbortedError" /\ Len(t.trace) = 3)
    /\ [][/\ Cardinality(EventsOf(StepEvents, "request")) <= 2
          /\ Cardinality(EventsOf(StepEvents, "reset")) <= 1
          /\ \A i \in EventsOf(StepEvents, "reset") :
                 /\ i = 2 /\ Len(StepEvents) >= 3
                 /\ StepEvents[1].ev = "request" /\ StepEvents[3] = StepEvents[1]
          /\ Cardinality(EventsOf(StepEvents, "request")) = 2
                 => EventsOf(StepEvents, "reset") = {2}]_vars

\* A call whose submission was aborted twice.
C13_Witness ==
    /\ op = "invoke" /\ pc = "idle"
    /\ error.cls = "ConnectionAbortedError"
    /\ Len(trace) = 3
    /\ trace[1].ev = "request" /\ trace[2].ev = "reset" /\ trace[3] = trace[1]

\* The request fails for another reason than an aborted submission: the
\* submission raises something else, the response cannot be read, the status
\* is not 200, or the body is an error or cannot be decoded.
FailsUnaborted(o) ==
    \/ o.net \in {"submit_error", "read_error"}
    \/ /\ o.net = "ok"
       /\ \/ o.status # 200
          \/ ~(\/ o.body.j = "empty"
               \/ IsScalar(o.body.j)
               \/ o.body.j = "object" /\ o.body.hastype /\ o.body.type = "ref")

\* C14: a request that fails for another reason than an aborted submission
\* raises to the caller with the request submitted once and the connection
\* never reset; no step that raises goes on after the response was read.
C14_OtherFailuresNotRetried ==
    /\ [](\A r \in SampleRequests, o \in WireOutcomes :
              FailsUnaborted(o)
              => LET t == send_http_request(T0, r.method, r.url, r.body, o)
                 IN  /\ t.exc # NoExc /\ t.value = NoVal
                     /\ EventsOf(t.trace, "request") = {1} /\ t.trace[1] = r
                     /\ EventsOf(t.trace, "reset") = {}
                     /\ t.connection = connection)
    /\ [][/\ error'.cls \in {"OSError", "RemoteDisconnected"}
              => /\ EventsOf(StepEvents, "request") = {1}
                 /\ EventsOf(StepEvents, "reset") = {}
          /\ (error' # NoExc /\ StepEvents # <<>>)
              => /\ Cardinality(Requests(StepEvents)) = 1
                 /\ EventsOf(StepEvents, "getresponse") \subseteq {Len(StepEvents)}]_vars

\* A read whose response could not be read.
C14_Witness ==
    /\ op = "eval" /\ pc = "idle"
    /\ error.cls = "RemoteDisconnected"
    /\ Len(trace) = 2 /\ trace[1].ev = "request" /\ trace[2].ev = "getresponse"

\* This step is a read, a count, a write or a call whose request goes as o.
RequestStep(o) ==
    \E self \in Live :
        \/ Eval(self, o)
        \/ \E name \in CountNames : GetCount(self, name, o)
        \/ \E name \in Names, value \in Values : SetAttr(self, name, value, o)
        \/ Call(self, <<>>, o)

\* C15: a read, a count, a write or a call whose response has a status other
\* than 200 raises a ClientException whose code is "HTTP" followed by the
\* status and whose message ends with the reason, and returns nothing.
C15_StatusIsClientException ==
    [][\A o \in WireOutcomes :
           (o.net \in {"ok", "abort_ok"} /\ o.status # 200 /\ RequestStep(o))
           => /\ error' = ClientException("Failed to execute request: " \o o.reason,
                                          "HTTP" \o ToString(o.status))
              /\ result' = NoVal
              /\ pc' = "idle"]_vars

\* The codes and messages the server sends in an error.
ServerErrors ==
    {BodyError(c, m) :
        c \in {INVALID_ATTRIBUTE_PATH, BAD_REQUEST, EXECUTION_ERROR, INTERNAL_ERROR,
               SERIALIZATION_ERROR, "Unheard"},
        m \in {"Undefined symbol", "A name index argument was expected", ""}}

\* What get, set and invoke do with a response.
TransportCalls(t, o) ==
    {Transport_get(t, ROOT, o),
     Transport_get(t, child(ROOT, "count"), o),
     Transport_set(t, child(ROOT, "application"), Scalar("int", "7"), o),
     Transport_invoke(t, ROOT, <<>>, o)}

\* C16: a read, a count, a write or a call answered with status 200 and an
\* error of code c and message m raises ClientException with error_code c and
\* message m, whatever c and m are, and returns nothing.
C16_ErrorResponseRaises ==
    /\ [](\A b \in ServerErrors, n \in {"ok", "abort_ok"} :
              \A t \in TransportCalls(T0, Outcome(n, 200, "OK", b)) :
                  /\ t.exc = ClientException(b.message, b.code)
                  /\ t.value = NoVal
                  /\ t.refs = temporary_references)
    /\ [][(error'.cls = "ClientException" /\ pc = "idle"
              /\ op' \in {"eval", "count", "set", "invoke"})
          => /\ result' = NoVal /\ response' = NoVal /\ pc' = "idle"
             /\ objs' = objs
             /\ temporary_references' = temporary_references]_vars

\* A call the server refused.
C16_Witness ==
    /\ op = "invoke" /\ pc = "idle"
    /\ error = ClientException("A name index argument was expected", EXECUTION_ERROR)
    /\ result = NoVal
    /\ Len(trace) = 2

\* The bodies that are not empty and are neither a scalar, nor a reference,
\* nor an error.
OtherShapes == {BodyNull, BodyArray, BodyNoType, BodyOther, BodyInvalid}

\* C17: a read, a count, a write or a call answered with status 200 and a
\* body that is not empty and is neither a scalar, nor a reference, nor an
\* error, raises ClientException with code SerializationError.
C17_OtherShapeIsSerializationError ==
    [][\A b \in OtherShapes :
           RequestStep(Outcome("ok", 200, "OK", b))
           => /\ error'.cls = "ClientException"
              /\ error'.code = SERIALIZATION_ERROR]_vars

\* C18: a read, a count or a call answered with a reference returns an
\* AttrProxy, never the AttrRef: the reference decodes to an AttrRef with the
\* path of the response and temporary set, and the proxy the operation
\* returns has that path and temporary set.
C18_RefReturnsProxy ==
    /\ [](/\ result.t # "AttrRef"
          /\ \A p \in RefPaths :
                 decode(T0, BodyRef(p)).value = PyVal("AttrRef", p, TRUE, TRUE)
          /\ response.t = "AttrRef"
                 => response.temporary /\ response.v \in RefPaths)
    /\ [][(pc = "decoded" /\ pc' = "wrapped")
          => /\ result' = PyVal("AttrProxy", response.v, TRUE, TRUE)
             /\ CopiesIn(Obj(response.v, TRUE), objs')
                    = CopiesIn(Obj(response.v, TRUE), objs) + 1]_vars

\* A call has returned the proxy of the reference it was answered with.
C18_Witness ==
    /\ op = "invoke" /\ pc = "idle" /\ error = NoExc
    /\ result.t = "AttrProxy" /\ result.temporary /\ result.v \in RefPaths
    /\ ProxyHolders(result.v) >= 1

\* The names that equal 'count' when case is ignored.
CountLike == {"count", "Count", "COUNT"}

C20_CountResolves ==
    /\ [](\A self \in Live, name \in CountLike :
              (CanCall /\ HasFree)
              => /\ ~ENABLED GetAttr(self, name)
                 /\ \A o \in NavOutcomes :
                        LET t == Transport_get(T0, child(self.path, name), o)
                        IN  /\ ENABLED GetCount(self, name, o)
                            /\ IsScalar(o.body.j)
                                   => /\ t.value = Scalar(o.body.j, o.body.val)
                                      /\ t.exc = NoExc
                            /\ o.body.type = "ref"
                                   => /\ t.value = PyVal("AttrRef", o.body.path,
                                                         TRUE, TRUE)
                                      /\ t.exc = NoExc)
    /\ [][/\ (pc = "idle" /\ op' = "count")
                 => /\ EventsOf(trace', "request") = {1}
                    /\ \E self \in Live, name \in CountLike :
                           trace'[1] = Event("request", "GET",
                                             baseUrl \o Str(self.path) \o "." \o name,
                                             "None")
                    /\ objs' = objs
                    /\ (error' = NoExc /\ pc' = "idle")
                           => IsScalar(result'.t) /\ response' = NoVal
                    /\ pc' = "decoded"
                           => response'.t = "AttrRef" /\ result' = NoVal
          /\ (pc = "idle" /\ op' = "getattr")
                 => result'.v[Len(result'.v)] \notin CountLike]_vars

\* The root was asked for its COUNT and gave the number the server sent.
C20_Witness ==
    /\ op = "count" /\ pc = "idle" /\ error = NoExc
    /\ result = Scalar("int", "7")
    /\ Len(trace) = 2
    /\ trace[1] = Event("request", "GET", baseUrl \o "ODTK.COUNT", "None")

\* C21: indexing a proxy with a key returns a new AttrProxy with temporary
\* unset whose path is the receiver's path, "(", the key (in double quotes
\* when it is a str, as str(key) gives it otherwise) and ")"; it sends nothing
\* and leaves the table as it was.
C21_IndexNavigates ==
    [][\A self \in Live, key \in IndexKeys :
           GetItem(self, key)
           => /\ result'.t = "AttrProxy" /\ ~result'.temporary
              /\ Str(result'.v)
                     = Str(self.path) \o "("
                       \o (IF key.t = "str" THEN "\"" \o Str(key.v) \o "\""
                           ELSE Str(key.v))
                       \o ")"
              /\ objs' = New(Obj(result'.v, FALSE))
              /\ trace' = <<>> /\ error' = NoExc
              /\ temporary_references' = temporary_references]_vars

\* The root was indexed by name.
C21_Witness ==
    /\ op = "getitem" /\ pc = "idle" /\ error = NoExc /\ trace = <<>>
    /\ result.t = "AttrProxy" /\ ~result.temporary
    /\ Str(result.v) = "ODTK(\"Satellite\")"
    /\ Obj(result.v, FALSE) \in Live

\* C24: iterating a proxy reads its count once, by one read request for the
\* path + ".count" when the pass starts to run; it then yields the items
\* 0 .. count-1 in order, each a new AttrProxy with temporary unset made
\* without a request, and ends; a new pass reads the count again.
C24_IterReadsCountOnce ==
    [][/\ op' = "iter"
              => /\ gen'.state = "new" /\ trace' = <<>>
                 /\ objs' = objs /\ temporary_references' = temporary_references
       /\ (op' = "next" /\ gen.state = "new")
              => /\ EventsOf(trace', "request") = {1}
                 /\ trace'[1] = Event("request", "GET",
                                      baseUrl \o Str(gen.path) \o ".count", "None")
                 /\ error' = NoExc
                        => /\ gen'.n \in 0 .. MaxCount
                           /\ IF gen'.n = 0
                              THEN gen'.state = "done" /\ result' = NoVal
                              ELSE /\ gen' = Gen("running", gen.path, gen'.n, 1)
                                   /\ result' = ProxyVal(Obj(indexed(gen.path,
                                                     Scalar("int", "0")), FALSE))
                                   /\ objs' = New(Obj(result'.v, FALSE))
                 /\ error' # NoExc => gen'.state = "done" /\ objs' = objs
       /\ (op' = "next" /\ gen.state = "running")
              => /\ trace' = <<>> /\ error' = NoExc
                 /\ temporary_references' = temporary_references
                 /\ IF gen.i < gen.n
                    THEN /\ gen' = Gen("running", gen.path, gen.n, gen.i + 1)
                         /\ result' = ProxyVal(Obj(indexed(gen.path,
                                           Scalar("int", ToString(gen.i))), FALSE))
                         /\ objs' = New(Obj(result'.v, FALSE))
                    ELSE /\ gen' = Gen("done", gen.path, gen.n, gen.i)
                         /\ result' = NoVal /\ objs' = objs]_vars

\* A pass over the root of count 2 has yielded its second item, ODTK(1).
C24_Witness ==
    /\ op = "next" /\ error = NoExc /\ trace = <<>>
    /\ gen = Gen("running", ROOT, 2, 2)
    /\ result.t = "AttrProxy" /\ ~result.temporary
    /\ Str(result.v) = "ODTK(1)" /\ Obj(result.v, FALSE) \in Live

\* C30: making a proxy with temporary unset (by attribute access or by
\* indexing, from any proxy, a temporary one included) and destroying one
\* leaves the reference table as it was and sends nothing; the count of a
\* temporary parent's path stays what it was.
C30_PlainProxyHasNoEffect ==
    /\ [](\A self \in Live, name \in NavNames, key \in Keys :
              \A path \in {self.path, child(self.path, name), indexed(self.path, key)} :
                  /\ AttrProxy_init(T0, path, FALSE)
                         = return(T0, ProxyVal(Obj(path, FALSE)))
                  /\ \A o \in NavRelease :
                         AttrProxy_del(T0, Obj(path, FALSE), o) = T0)
    /\ [][/\ op' \in {"getattr", "getitem"}
                 => /\ ~result'.temporary
                    /\ objs' = New(Obj(result'.v, FALSE))
                    /\ temporary_references' = temporary_references
                    /\ trace' = <<>> /\ error' = NoExc
          /\ (op' = "del" /\ \E self \in Live :
                                 ~self.temporary /\ objs' = objs (-) SetToBag({self}))
                 => /\ temporary_references' = temporary_references
                    /\ trace' = <<>> /\ error' = NoExc]_vars

\* A child was derived from the temporary proxy of WS._1, whose count is
\* still the one holder it has.
C30_Witness ==
    /\ op = "getattr" /\ pc = "idle" /\ error = NoExc /\ trace = <<>>
    /\ result = ProxyVal(Obj(child(<<"WS._1">>, "application"), FALSE))
    /\ Obj(result.v, FALSE) \in Live
    /\ CopiesIn(Obj(<<"WS._1">>, TRUE), objs) = 1
    /\ RefCount(<<"WS._1">>) = 1

\* C27: requests and responses alternate in program order: a request that
\* was submitted is followed at once by the reading of its response, or by the
\* reset of the connection and its one resubmission, or its submission
\* raised and nothing follows it; no response is read without a request
\* before it, and no step submits more than one request. The release sent
\* when a proxy or a decoded reference is destroyed is one of these requests.
C27_OneOutstanding ==
    /\ [](\A i \in DOMAIN trace :
              /\ trace[i].ev = "request"
                     => \/ i < Len(trace) /\ trace[i + 1].ev = "getresponse"
                        \/ /\ i + 1 < Len(trace)
                           /\ trace[i + 1].ev = "reset" /\ trace[i + 2] = trace[i]
                           /\ (i = 1 \/ trace[i - 1].ev # "reset")
                        \/ i = Len(trace) /\ error.cls \in {"OSError", "ConnectionAbortedError"}
              /\ trace[i].ev = "getresponse" => i > 1 /\ trace[i - 1].ev = "request"
              /\ trace[i].ev = "reset" => i > 1 /\ trace[i - 1].ev = "request")
    /\ [][Cardinality(Requests(StepEvents)) <= 1]_vars

\* A write was answered with a reference, the reference was dropped, and its
\* release was sent after the response of the write had been read.
C27_Witness ==
    /\ Len(trace) = 4 /\ error = NoExc
    /\ trace[1].ev = "request" /\ trace[1].method = "POST" /\ ~IsRelease(trace[1])
    /\ trace[2].ev = "getresponse"
    /\ IsRelease(trace[3])
    /\ trace[4].ev = "getresponse"

\* The JSON text of a reference to the path.
RefText(path) == "{\"type\": \"ref\", \"path\": \"" \o Str(path) \o "\"}"

\* C22: assigning a value to attribute name of a proxy sends one write
\* request, for the proxy's path + "." + name, whose body is the encoded
\* value; a value that is an AttrProxy is sent as a reference to its path,
\* through an AttrRef that is not counted, nothing is read, and the table
\* stays as it was (unless the server answers the write with a reference).
C22_SetSendsOneWrite ==
    /\ [](\A self \in Live, name \in SetNames, o \in ArgOutcomes :
              /\ LET ref == value_for_transport_request(ProxyVal(self))
                 IN  /\ AttrRef_init(T0, self.path, FALSE, FALSE) = return(T0, ref)
                     /\ AttrRef_del(T0, ref, o) = T0
                     /\ encode(ref) = [exc |-> NoExc, text |-> RefText(self.path)]
              /\ \A value \in ArgValues \ {ListValue} :
                     LET t == Transport_set(T0, child(self.path, name),
                                            value_for_transport_request(value), o)
                     IN  /\ t.trace
                              = <<Event("request", "POST",
                                        baseUrl \o Str(self.path) \o "." \o name \o "/set",
                                        IF value.t = "AttrProxy" THEN RefText(value.v)
                                        ELSE encode(value).text),
                                  Event("getresponse", "", "", "")>>
                         /\ o.body.type # "ref" => t.refs = temporary_references)
    /\ [][(pc = "idle" /\ op' = "set" /\ trace' # <<>>)
              => /\ Requests(trace') = {1}
                 /\ trace'[1].method = "POST"
                 /\ \A i \in DOMAIN trace' : trace'[i].method # "GET"
                 /\ objs' = objs /\ result' = NoVal
                 /\ pc' = "idle" => temporary_references' = temporary_references]_vars

\* The root's application was assigned the temporary proxy of WS._1: one write
\* went out with the reference as its body, and the count of WS._1 is still 1.
C22_Witness ==
    /\ op = "set" /\ pc = "idle" /\ error = NoExc
    /\ trace = <<Event("request", "POST", baseUrl \o "ODTK.application/set",
                       "{\"type\": \"ref\", \"path\": \"WS._1\"}"),
                 Event("getresponse", "", "", "")>>
    /\ RefCount(<<"WS._1">>) = 1 /\ ProxyHolders(<<"WS._1">>) = 1

\* The text an argument is sent as.
ArgText(a) == IF a.t = "AttrProxy" THEN RefText(a.v) ELSE encode(a).text

\* C23: calling a proxy sends one invoke request for the proxy's own path
\* whose body is "[", the encoded arguments in the order given, separated by
\* ",", and "]", a proxy argument as a reference to its path; the call returns
\* what the response decodes to, a scalar or (once wrapped) a new AttrProxy.
C23_CallSendsOneInvoke ==
    /\ [](\A self \in Live, args \in ArgLists, o \in ArgOutcomes :
              (\A i \in DOMAIN args : args[i] # ListValue)
              => LET t == Transport_invoke(T0, self.path,
                              [i \in DOMAIN args |-> value_for_transport_request(args[i])],
                              o)
                 IN  /\ t.trace
                          = <<Event("request", "POST",
                                    baseUrl \o Str(self.path) \o "/invoke",
                                    "[" \o (IF Len(args) = 0 THEN ""
                                            ELSE IF Len(args) = 1 THEN ArgText(args[1])
                                            ELSE ArgText(args[1]) \o "," \o ArgText(args[2]))
                                        \o "]"),
                              Event("getresponse", "", "", "")>>
                     /\ IsScalar(o.body.j)
                            => t.exc = NoExc /\ t.value = Scalar(o.body.j, o.body.val)
                     /\ o.body.type = "ref"
                            => /\ t.exc = NoExc
                               /\ t.value = PyVal("AttrRef", o.body.path, TRUE, TRUE))
    /\ [][/\ (pc = "idle" /\ op' = "invoke" /\ trace' # <<>>)
                 => /\ Requests(trace') = {1}
                    /\ objs' = objs
                    /\ (pc' = "idle" /\ error' = NoExc)
                           => result'.t \in {"bool", "float", "int", "str"}
                    /\ pc' = "decoded" => response'.t = "AttrRef" /\ result' = NoVal
          /\ (pc = "decoded" /\ op = "invoke" /\ pc' = "wrapped")
                 => /\ result' = ProxyVal(Obj(response.v, TRUE))
                    /\ objs' = New(Obj(response.v, TRUE))
                    /\ trace' = trace]_vars

\* The root was called with a text and itself and answered with a number.
C23_Witness ==
    /\ op = "invoke" /\ pc = "idle" /\ error = NoExc
    /\ result = Scalar("int", "7")
    /\ trace = <<Event("request", "POST", baseUrl \o "ODTK/invoke",
                       "[\"Alpha\",{\"type\": \"ref\", \"path\": \"ODTK\"}]"),
                 Event("getresponse", "", "", "")>>

\* C25: no step changes the path or the temporary flag of a proxy that
\* exists: every step leaves each proxy as it was, besides the one it makes
\* or the one it destroys; an assignment, to the name path included, makes
\* and destroys none and goes to the server as a write for the proxy's path +
\* "." + the name.
C25_ProxyFieldsNeverChange ==
    /\ [](\A self \in Live, name \in SetNames, value \in ArgValues \ {ListValue},
             o \in ArgOutcomes :
              Transport_set(T0, child(self.path, name),
                            value_for_transport_request(value), o).trace[1].url
                  = baseUrl \o Str(self.path) \o "." \o name \o "/set")
    /\ [][/\ op' # "del"
                 => \A self \in Live : CopiesIn(self, objs') >= CopiesIn(self, objs)
          /\ op' = "del"
                 => \E self \in Live : objs' = objs (-) SetToBag({self})
          /\ BagCardinality(objs') <= BagCardinality(objs) + 1
          /\ op' = "set" => objs' = objs]_vars

\* The root's path was assigned a text: the write went to ODTK.path, and the
\* root is the root still.
C25_Witness ==
    /\ op = "set" /\ pc = "idle" /\ error = NoExc
    /\ trace = <<Event("request", "POST", baseUrl \o "ODTK.path/set", "\"Alpha\""),
                 Event("getresponse", "", "", "")>>
    /\ objs = SetToBag({Root})

\* The exception _encode raises for the list.
ListError ==
    ClientException("Value of type list cannot be encoded for a request.",
                    SERIALIZATION_ERROR)

\* C26: a value that is no bool, number, text, None or reference (a list)
\* cannot be encoded: the assignment or the call that carries it raises
\* ClientException with the code SerializationError and sends nothing.
C26_UnencodableSendsNothing ==
    /\ [](/\ encode(ListValue).exc = ListError
          /\ \A self \in Live, name \in SetNames, o \in ArgOutcomes :
                 /\ Transport_set(T0, child(self.path, name),
                                  value_for_transport_request(ListValue), o)
                        = raise(T0, ListError)
                 /\ \A args \in ArgLists :
                        (\E i \in DOMAIN args : args[i] = ListValue)
                        => Transport_invoke(T0, self.path,
                               [i \in DOMAIN args |-> value_for_transport_request(args[i])],
                               o) = raise(T0, ListError))
    /\ [][(pc = "idle" /\ op' \in {"set", "invoke"} /\ error' = ListError)
              => /\ trace' = <<>> /\ pc' = "idle" /\ result' = NoVal
                 /\ objs' = objs
                 /\ temporary_references' = temporary_references]_vars

\* A call that carried the list raised and sent nothing.
C26_Witness ==
    /\ op = "invoke" /\ pc = "idle" /\ trace = <<>>
    /\ error.cls = "ClientException" /\ error.code = "SerializationError"

\* What a read of the path returns or raises against the server as it is.
ReadNow(path) == Transport_get(T0, path, ServerOk(ServerGet(server, path)))

\* C28: against a server that keeps the contract, evaluating a path
\* through a temporary proxy (the proxy the evaluation of a prefix returned,
\* held by the caller, then attribute access, then eval) returns or raises
\* what evaluating the same path by attribute accesses from the root does.
C28_ProxyRouteAgrees ==
    /\ [](\A p \in Live, name \in Names :
              (p.temporary /\ ServerGet(server, ROOT) = BodyRef(p.path))
              => /\ ReadNow(child(p.path, name)).value
                        = ReadNow(child(ROOT, name)).value
                 /\ ReadNow(child(p.path, name)).exc = ReadNow(child(ROOT, name)).exc)
    /\ [][\A p \in Live, name \in Names :
              (/\ p.temporary /\ pc = "idle" /\ op' = "eval" /\ trace' # <<>>
               /\ trace'[1].url = baseUrl \o Str(child(p.path, name)))
              => /\ result' = ReadNow(child(ROOT, name)).value
                 /\ error' = ReadNow(child(ROOT, name)).exc]_vars

\* The caller holds the temporary proxy of the root, and the application read
\* through it gave the bool that was written by the path from the root.
C28_Witness ==
    /\ op = "eval" /\ pc = "idle" /\ error = NoExc
    /\ trace[1].url = baseUrl \o "WS._1.application"
    /\ result = Scalar("bool", "False")
    /\ ProxyHolders(<<"WS._1">>) = 1

\* The path of the root's application.
ApplicationPath == child(ROOT, "application")

\* C29: against a server that stores what it is sent, a scalar (a bool, an
\* int, a float, a text) assigned to an attribute is what the evaluation of
\* that attribute returns next.
C29_SetThenEvalRoundTrips ==
    /\ [](\A v \in ScalarSamples :
              LET text == encode(value_for_transport_request(v)).text
                  stored == AfterSet(server, ApplicationPath, text)
                  t == Transport_get(T0, ApplicationPath,
                                     ServerOk(ServerGet(stored, ApplicationPath)))
              IN  /\ Transport_set(T0, ApplicationPath, value_for_transport_request(v),
                                   ServerOk(ServerSet(server, ApplicationPath))).exc = NoExc
                  /\ t.exc = NoExc /\ t.value = v)
    /\ [][/\ (pc = "idle" /\ op' = "set" /\ error' = NoExc)
                 => \E v \in ScalarSamples :
                        /\ trace'[1].body = encode(v).text
                        /\ ReadNow(ApplicationPath).value' = v
          /\ (pc = "idle" /\ op' = "eval" /\ trace' # <<>>
                 /\ trace'[1].url = baseUrl \o Str(ApplicationPath))
                 => /\ error' = NoExc /\ result' \in ScalarSamples
                    /\ encode(result').text = server.value]_vars

\* True was assigned to the root's application, and its evaluation gave True.
C29_Witness ==
    /\ op = "eval" /\ pc = "idle" /\ error = NoExc
    /\ trace[1].url = baseUrl \o "ODTK.application"
    /\ result = Scalar("bool", "True")
    /\ server.value = "true"

\* C31: on a transport that is not disposed, increment_ref_count(path) puts
\* the path in the table with count 1 when it is absent and adds exactly 1 to
\* its count otherwise; it sends nothing, raises nothing, and leaves the
\* count of every other path as it was.
C31_IncrementAddsOne ==
    /\ [](~disposed
          => \A p \in RefPaths :
                 LET t == increment_ref_count(T0, p)
                 IN  /\ t.exc = NoExc /\ t.trace = <<>>
                     /\ t.disposed = disposed /\ t.connection = connection
                     /\ dict_has(t.refs, p)
                     /\ dict_get(t.refs, p) = RefCount(p) + 1
                     /\ \A q \in RefPaths \ {p} :
                            /\ dict_has(t.refs, q) = dict_has(temporary_references, q)
                            /\ dict_has(t.refs, q) => dict_get(t.refs, q) = RefCount(q))
    /\ [][(~disposed /\ pc = "decoded" /\ pc' = "wrapped")
              => /\ RefCount(response.v)' = RefCount(response.v) + 1
                 /\ trace' = trace /\ error' = NoExc
                 /\ \A q \in RefPaths \ {response.v} : RefCount(q)' = RefCount(q)]_vars

\* A reference whose path one proxy holds was decoded and wrapped: the count
\* went from 1 to 2 and to 3.
C31_Witness ==
    /\ ~disposed /\ pc = "wrapped" /\ error = NoExc
    /\ \E p \in RefPaths : RefCount(p) = 3 /\ ProxyHolders(p) = 2 /\ RefHolders(p) = 1

\* The count a table holds for a path, 0 when it has none.
CountIn(d, path) == IF dict_has(d, path) THEN dict_get(d, path) ELSE 0

\* The hand-off of a decoded reference to its proxy, step by step: the
\* decoding counts the AttrRef, the wrapping counts the proxy while the
\* AttrRef is still alive, and the AttrRef is destroyed last, which takes the
\* count down by 1 and not to 0; none of the three sends a release request
\* naming the path.
HandOffStep ==
    /\ (pc = "idle" /\ pc' = "decoded" /\ op' # "set")
           => /\ CountIn(temporary_references', response'.v)
                     = CountIn(temporary_references, response'.v) + 1
              /\ \A i \in DOMAIN trace' : ~ReleaseNames(trace'[i], response'.v)
    /\ (pc = "decoded" /\ pc' = "wrapped")
           => /\ response' = response /\ RefHolders(response.v)' = 1
              /\ ProxyHolders(response.v)' = ProxyHolders(response.v) + 1
              /\ RefCount(response.v)' = RefCount(response.v) + 1
              /\ trace' = trace
    /\ (pc = "wrapped" /\ pc' = "idle")
           => /\ CountIn(temporary_references', response.v) = RefCount(response.v) - 1
              /\ CountIn(temporary_references', response.v) >= 1
              /\ trace' = trace
              /\ result' = result /\ result.t = "AttrProxy" /\ result.v = response.v

\* C32 as stated: in every resolving operation answered with a reference the
\* AttrRef is destroyed after the proxy is made, the count of the path does
\* not reach 0 and no release of it is sent during the hand-off, and the
\* count has grown by exactly 1 when the operation has returned.
C32_HandOff ==
    /\ [](response.t = "AttrRef" /\ op # "set" => RefCount(response.v) >= 1)
    /\ [][HandOffStep]_vars

\* C32, amended: the same, on a transport that is not disposed.
C32_HandOffWhileOpen ==
    /\ []((~disposed /\ response.t = "AttrRef" /\ op # "set")
              => RefCount(response.v) >= 1)
    /\ [][~disposed => HandOffStep]_vars

\* A read was answered with a reference whose path one proxy held: it has
\* returned a second proxy, the count is 2, and only the read was sent.
C32_Witness ==
    /\ ~disposed /\ op = "eval" /\ pc = "idle" /\ error = NoExc
    /\ result.t = "AttrProxy" /\ result.temporary
    /\ RefCount(result.v) = 2 /\ ProxyHolders(result.v) = 2
    /\ Len(trace) = 2 /\ trace[1].method = "GET"

\* No release request this step sent names a path that a temporary AttrProxy
\* or AttrRef still holds after the step.
ReleasesOnlyUnheld ==
    \A p \in RefPaths :
        (\E i \in DOMAIN StepEvents : ReleaseNames(StepEvents[i], p))
        => Holders(p)' = 0

\* C33: while the transport is not disposed, no step besides close itself
\* sends a release request naming a path that a temporary AttrProxy or
\* AttrRef still holds (release_refs is called by the transport alone here).
C33_NoReleaseOfHeld ==
    [][(~disposed /\ ~CloseStep) => ReleasesOnlyUnheld]_vars

\* The same until close is called for the first time: this holds.
NoReleaseOfHeldUntilClose ==
    [][(~close_called /\ ~CloseStep) => ReleasesOnlyUnheld]_vars

\* What get, set and invoke do with a response, for a value that can be
\* encoded and for one that cannot.
FrameCalls(t, self, o) ==
    {Transport_get(t, self.path, o),
     Transport_get(t, child(self.path, "count"), o),
     Transport_invoke(t, self.path, <<>>, o)}
    \cup {Transport_set(t, child(self.path, "application"), v, o) :
              v \in {Scalar("int", "7"), ListValue}}
    \cup {Transport_invoke(t, self.path, <<v>>, o) :
              v \in {Scalar("int", "7"), ListValue}}

\* C34: a read, a write, a call or a count that raises (the value cannot be
\* encoded, the request fails, the status is not 200, the response is an
\* error or cannot be decoded) or that is answered with a scalar or with
\* nothing leaves the reference table and the disposed flag as they were.
C34_FailureLeavesTable ==
    /\ [](\A self \in Live, o \in WireOutcomes \cup {NoOutcome} :
              \A t \in FrameCalls(T0, self, o) :
                  (t.exc # NoExc \/ t.value.t # "AttrRef")
                  => /\ t.refs = temporary_references
                     /\ t.disposed = disposed)
    /\ [][(pc = "idle" /\ op' \in {"eval", "count", "set", "invoke"} /\ pc' = "idle")
              => /\ temporary_references' = temporary_references
                 /\ disposed' = disposed
                 /\ (error' # NoExc \/ result'.t # "AttrProxy")]_vars

\* With a reference counted in the table, a read was answered with an error
\* and the table is as it was.
C34_Witness ==
    /\ op = "eval" /\ pc = "idle" /\ error.cls = "ClientException"
    /\ ~disposed /\ \E p \in RefPaths : RefCount(p) = 1 /\ ProxyHolders(p) = 1

\* The paths of a list that the table holds are all of them.
AllTracked(l) == \A i \in DOMAIN l : dict_has(temporary_references, l[i])

\* C35: release_refs takes every named path out of the table before it
\* sends the request: when the request fails the paths are gone all the same,
\* the request was sent once, and no later step sends a release for a path
\* the table does not hold.
C35_ReleaseForgetsFirst ==
    /\ [](~disposed
          => \A l \in PathLists, o \in ReleaseOutcomes :
                 AllTracked(l)
                 => LET t == release_refs(T0, l, o)
                    IN  /\ \A i \in DOMAIN l : ~dict_has(t.refs, l[i])
                        /\ \A q \in RefPaths :
                               (\A i \in DOMAIN l : l[i] # q)
                               => CountIn(t.refs, q) = RefCount(q)
                        /\ Cardinality(Requests(t.trace)) = 1
                        /\ t.trace[1] = ReleaseRequest(l)
                        /\ t.disposed = disposed
                        /\ (o.net = "submit_error" \/ o.body.type = "error")
                               => t.exc # NoExc)
    /\ [][\A p \in RefPaths :
              (\E i \in DOMAIN StepEvents : ReleaseNames(StepEvents[i], p))
              => /\ dict_has(temporary_references, p)
                 /\ ~dict_has(temporary_references', p)
                 /\ Cardinality({i \in Requests(StepEvents) :
                                    ReleaseNames(StepEvents[i], p)}) = 1]_vars

\* The caller released WS._1 itself and the request failed: the table has
\* lost the path, whose proxy is still alive.
C35_Witness ==
    /\ op = "release" /\ pc = "idle" /\ error.cls = "OSError" /\ ~disposed
    /\ trace = <<ReleaseRequest(<<<<"WS._1">>>>)>>
    /\ ~dict_has(temporary_references, <<"WS._1">>)
    /\ ProxyHolders(<<"WS._1">>) = 1

\* The release request of this outcome raises.
ReleaseFails(o) == o.net = "submit_error" \/ o.body.type = "error"

\* C36: close sets disposed after the release request and after the closing
\* of the connection: when the release request raises, close raises the same
\* exception, disposed is still unset and the connection not closed, and the
\* table is empty already; when it does not, the connection is closed after
\* the response of the release was read, and disposed is set.
C36_FailedCloseStaysOpen ==
    /\ []((~disposed /\ temporary_references # <<>>)
          => \A o \in ReleaseOutcomes :
                 LET t == close(T0, o)
                     sent == http_post(T0, release_url,
                                       release_body(dict_keys(temporary_references)), o)
                 IN  /\ t.refs = <<>>
                     /\ t.exc = sent.exc
                     /\ ReleaseFails(o)
                            => /\ t.exc # NoExc /\ ~t.disposed
                               /\ t.connection = connection
                               /\ t.trace = sent.trace
                     /\ ~ReleaseFails(o)
                            => /\ t.exc = NoExc /\ t.disposed
                               /\ t.connection = "closed"
                               /\ t.trace = Append(sent.trace, Event("close", "", "", "")))
    /\ [][(CloseStep /\ ~disposed /\ error' # NoExc)
              => /\ ~disposed' /\ connection' = connection
                 /\ temporary_references' = <<>>
                 /\ temporary_references # <<>>
                 /\ EventsOf(trace', "close") = {}
                 /\ IsRelease(trace'[1])]_vars

\* A close whose release request could not be submitted: it raised, the
\* transport is not disposed, the connection is open, and the table that
\* held the path of a live proxy is empty.
C36_Witness ==
    /\ op = "close" /\ pc = "idle" /\ error.cls = "OSError"
    /\ ~disposed /\ connection = "open" /\ temporary_references = <<>>
    /\ IsRelease(trace[1]) /\ Len(trace) = 1
    /\ \E p \in RefPaths : ProxyHolders(p) >= 1

\* C37: disposed is never unset; whenever it is set the table is empty, and
\* no step taken from a disposed transport, a read that decodes a reference
\* among them, puts a path into the table or sends a release request.
C37_DisposedForGood ==
    /\ [](disposed => temporary_references = <<>>)
    /\ [][disposed
             => /\ disposed'
                /\ temporary_references' = <<>>
                /\ \A i \in 1 .. Len(StepEvents) : ~IsRelease(StepEvents[i])]_vars

\* After shutdown a call was answered with a reference and wrapped in a
\* temporary proxy: a request went out, none of them a release, and the table
\* is empty.
C37_Witness ==
    /\ disposed /\ close_called /\ pc = "idle" /\ op = "invoke"
    /\ result.t = "AttrProxy" /\ result.temporary
    /\ Len(trace) >= 1
    /\ \A i \in 1 .. Len(trace) : ~IsRelease(trace[i])
    /\ temporary_references = <<>>

\* The place in the list l is offending: its path is not in the table d, or
\* stands at an earlier place of the list as well.
Offending(d, l, k) ==
    \/ ~dict_has(d, l[k])
    \/ \E j \in 1 .. k - 1 : l[j] = l[k]

\* The first offending place of the list l, 0 when it has none.
FirstOffending(d, l) ==
    IF \E k \in DOMAIN l : Offending(d, l, k)
    THEN CHOOSE k \in DOMAIN l :
             /\ Offending(d, l, k)
             /\ \A j \in 1 .. k - 1 : ~Offending(d, l, j)
    ELSE 0

\* C38: on a transport that is not disposed, release_refs with a list that
\* holds a path the table does not hold, or one path twice, raises KeyError
\* for the first such path and sends nothing; the paths that come before it
\* in the list are out of the table, and the other entries are as they were.
C38_AbsentPathFailsUnsent ==
    /\ [](~disposed
          => \A l \in ReleaseLists, o \in ReleaseOutcomes :
                 LET k == FirstOffending(temporary_references, l)
                     t == release_refs(T0, l, o)
                 IN  k # 0
                     => /\ t.exc = Exc("KeyError", "", Str(l[k]))
                        /\ t.trace = <<>>
                        /\ t.connection = connection /\ ~t.disposed
                        /\ t.refs = SelectSeq(temporary_references,
                               LAMBDA e : \A j \in 1 .. k - 1 : e.path # l[j]))
    /\ [][(op' = "release" /\ ~disposed /\ error'.cls = "KeyError")
              => /\ trace' = <<>>
                 /\ connection' = connection /\ ~disposed'
                 /\ \A p \in RefPaths :
                        dict_has(temporary_references', p)
                        => CountIn(temporary_references', p)
                               = CountIn(temporary_references, p)]_vars

\* release_refs raised KeyError for a path and sent nothing, and the table
\* has lost another path, one that a live proxy still holds.
C38_Witness ==
    /\ op = "release" /\ pc = "idle" /\ ~disposed /\ ~close_called
    /\ error.cls = "KeyError" /\ trace = <<>>
    /\ \E p, q \in RefPaths :
           /\ p # q /\ error = Exc("KeyError", "", Str(q))
           /\ ProxyHolders(p) >= 1 /\ ~dict_has(temporary_references, p)

====
